---- MODULE Spec2Model ----
(***************************************************************************)
(* Model of SiqService.parseSiq (src/unnamed/part_000, lines 587-1077):    *)
(* the .siq package parser of SIGame.  A JavaScript string is a sequence   *)
(* of characters, each character a one-element TLA+ string naming a code   *)
(* point ("e_acute" is U+00E9, "comb_acute" is U+0301).  A value of the    *)
(* parsed XML tree is a tagged record: undefined, a string, a number, an   *)
(* object (a function from property names to values) or an array.          *)
(***************************************************************************)
EXTENDS Integers, Sequences, FiniteSets, TLC

(***************************************************************************)
(* Bounds of the model.                                                    *)
(***************************************************************************)
MaxRounds == 2
MaxEntries == 2

(***************************************************************************)
(* Generic sequence helpers.                                               *)
(***************************************************************************)
Range(s) == {s[i] : i \in 1..Len(s)}

RECURSIVE Flatten(_)
Flatten(ss) == IF ss = <<>> THEN <<>> ELSE Head(ss) \o Flatten(Tail(ss))

IsPrefixAt(s, i, p) == i + Len(p) - 1 <= Len(s) /\ \A j \in 1..Len(p) : s[i + j - 1] = p[j]

\* String.prototype.includes
Includes(s, p) == \E i \in 1..(Len(s) + 1) : IsPrefixAt(s, i, p)

\* String.prototype.replace with a global literal pattern
RECURSIVE ReplaceAllFrom(_, _, _, _)
ReplaceAllFrom(s, i, pat, rep) ==
    IF i > Len(s) THEN <<>>
    ELSE IF IsPrefixAt(s, i, pat) THEN rep \o ReplaceAllFrom(s, i + Len(pat), pat, rep)
    ELSE <<s[i]>> \o ReplaceAllFrom(s, i + 1, pat, rep)

ReplaceAll(s, pat, rep) == ReplaceAllFrom(s, 1, pat, rep)

(***************************************************************************)
(* Character tables.                                                       *)
(***************************************************************************)
UpperChars == <<"A","B","C","D","E","F","G","H","I","J","K","L","M","N","O","P","Q","R","S","T","U","V","W","X","Y","Z","E_acute">>
LowerChars == <<"a","b","c","d","e","f","g","h","i","j","k","l","m","n","o","p","q","r","s","t","u","v","w","x","y","z","e_acute">>
DigitChars == <<"0","1","2","3","4","5","6","7","8","9">>

WhiteChars == {" ", "\t", "\n"}

\* String.prototype.toLowerCase, one character
LowerChar(c) ==
    IF \E i \in 1..Len(UpperChars) : UpperChars[i] = c
    THEN LowerChars[CHOOSE i \in 1..Len(UpperChars) : UpperChars[i] = c]
    ELSE c

ToLowerCase(s) == [i \in 1..Len(s) |-> LowerChar(s[i])]

\* String.prototype.trim
RECURSIVE TrimLeft(_)
TrimLeft(s) == IF s # <<>> /\ Head(s) \in WhiteChars THEN TrimLeft(Tail(s)) ELSE s

RECURSIVE TrimRight(_)
TrimRight(s) ==
    IF s # <<>> /\ s[Len(s)] \in WhiteChars THEN TrimRight(SubSeq(s, 1, Len(s) - 1)) ELSE s

Trim(s) == TrimRight(TrimLeft(s))

\* replace(/\s+/g, ' ')
RECURSIVE CollapseSpaces(_)
CollapseSpaces(s) ==
    IF s = <<>> THEN <<>>
    ELSE IF Head(s) \in WhiteChars
         THEN <<" ">> \o CollapseSpaces(TrimLeft(s))
         ELSE <<Head(s)>> \o CollapseSpaces(Tail(s))

\* Canonical compositions known to the model: base, combining mark, composed.
Compositions == << <<"e", "comb_acute", "e_acute">>, <<"E", "comb_acute", "E_acute">> >>

\* String.prototype.normalize('NFC')
RECURSIVE NFC(_)
NFC(s) ==
    IF Len(s) < 2 THEN s
    ELSE IF \E k \in 1..Len(Compositions) : Compositions[k][1] = s[1] /\ Compositions[k][2] = s[2]
         THEN LET k == CHOOSE k \in 1..Len(Compositions) : Compositions[k][1] = s[1] /\ Compositions[k][2] = s[2]
              IN <<Compositions[k][3]>> \o NFC(SubSeq(s, 3, Len(s)))
         ELSE <<s[1]>> \o NFC(Tail(s))

\* String.prototype.normalize('NFD')
RECURSIVE NFD(_)
NFD(s) ==
    IF s = <<>> THEN <<>>
    ELSE IF \E k \in 1..Len(Compositions) : Compositions[k][3] = s[1]
         THEN LET k == CHOOSE k \in 1..Len(Compositions) : Compositions[k][3] = s[1]
              IN <<Compositions[k][1], Compositions[k][2]>> \o NFD(Tail(s))
         ELSE <<s[1]>> \o NFD(Tail(s))

(***************************************************************************)
(* Percent-encoding.  PctTable lists, for every character of the model     *)
(* that encodeURIComponent escapes, its UTF-8 escape.                      *)
(***************************************************************************)
PctTable == <<
    <<" ", <<"%","2","0">> >>,
    <<"+", <<"%","2","B">> >>,
    <<"%", <<"%","2","5">> >>,
    <<"/", <<"%","2","F">> >>,
    <<"@", <<"%","4","0">> >>,
    <<"&", <<"%","2","6">> >>,
    <<"\\", <<"%","5","C">> >>,
    <<"\t", <<"%","0","9">> >>,
    <<"e_acute", <<"%","C","3","%","A","9">> >>,
    <<"E_acute", <<"%","C","3","%","8","9">> >>,
    <<"comb_acute", <<"%","C","C","%","8","1">> >> >>

\* encodeURIComponent
RECURSIVE EncodeURIComponent(_)
EncodeURIComponent(s) ==
    IF s = <<>> THEN <<>>
    ELSE IF \E k \in 1..Len(PctTable) : PctTable[k][1] = Head(s)
         THEN PctTable[(CHOOSE k \in 1..Len(PctTable) : PctTable[k][1] = Head(s))][2] \o EncodeURIComponent(Tail(s))
         ELSE <<Head(s)>> \o EncodeURIComponent(Tail(s))

\* Hex digits are case-insensitive in an escape.
EscMatches(s, i, esc) ==
    /\ i + Len(esc) - 1 <= Len(s)
    /\ \A j \in 1..Len(esc) : LowerChar(s[i + j - 1]) = LowerChar(esc[j])

\* decodeURIComponent: the decoded string, or a URIError for a '%' that starts
\* no well-formed escape.
RECURSIVE DecodeFrom(_, _)
DecodeFrom(s, i) ==
    IF i > Len(s) THEN [ok |-> TRUE, s |-> <<>>]
    ELSE IF s[i] = "%"
         THEN IF \E k \in 1..Len(PctTable) : EscMatches(s, i, PctTable[k][2])
              THEN LET k == CHOOSE k \in 1..Len(PctTable) : EscMatches(s, i, PctTable[k][2])
                       rest == DecodeFrom(s, i + Len(PctTable[k][2]))
                   IN [ok |-> rest.ok, s |-> <<PctTable[k][1]>> \o rest.s]
              ELSE [ok |-> FALSE, s |-> <<>>]
         ELSE LET rest == DecodeFrom(s, i + 1)
              IN [ok |-> rest.ok, s |-> <<s[i]>> \o rest.s]

DecodeURIComponent(s) == DecodeFrom(s, 1)

(***************************************************************************)
(* JavaScript values of the parsed XML tree (fast-xml-parser output): an   *)
(* element with attributes or children is an object, an element with only  *)
(* text a string or a number, an empty element the empty string, repeated  *)
(* elements an array.                                                      *)
(***************************************************************************)
Undef == [k |-> "undef"]
Str(s) == [k |-> "str", s |-> s]
Num(n) == [k |-> "num", n |-> n]
Obj(f) == [k |-> "obj", f |-> f]
Arr(a) == [k |-> "arr", a |-> a]

\* Property access v[p]: undefined on a primitive and on a missing property.
Get(v, p) == IF v.k = "obj" /\ p \in DOMAIN v.f THEN v.f[p] ELSE Undef

\* JavaScript truthiness
Truthy(v) ==
    CASE v.k = "undef" -> FALSE
      [] v.k = "str" -> v.s # <<>>
      [] v.k = "num" -> v.n # 0
      [] OTHER -> TRUE

\* a || b
OrElse(a, b) == IF Truthy(a) THEN a ELSE b

\* Number to decimal string, as String(n) does for an integer
RECURSIVE NatToStr(_)
NatToStr(n) == IF n < 10 THEN <<DigitChars[n + 1]>> ELSE NatToStr(n \div 10) \o <<DigitChars[(n % 10) + 1]>>

IntToStr(n) == IF n < 0 THEN <<"-">> \o NatToStr(0 - n) ELSE NatToStr(n)

\* String(v)
ToStr(v) ==
    CASE v.k = "undef" -> <<"u","n","d","e","f","i","n","e","d">>
      [] v.k = "str" -> v.s
      [] v.k = "num" -> IntToStr(v.n)
      [] v.k = "arr" -> <<"[","a","r","r","a","y","]">>
      [] OTHER -> <<"[","o","b","j","e","c","t"," ","O","b","j","e","c","t","]">>

\* SiqService.asArray
asArray(item) ==
    IF ~Truthy(item) THEN <<>>
    ELSE IF item.k = "arr" THEN item.a
    ELSE <<item>>

\* SiqService.getText
getText(item) ==
    CASE item.k = "undef" -> <<>>
      [] item.k = "str" -> item.s
      [] item.k = "num" -> IntToStr(item.n)
      [] OTHER -> LET text == Get(item, "#text") IN IF text.k # "undef" THEN ToStr(text) ELSE <<>>

\* Array.prototype.find over a list of nodes by the '@_name' attribute
FindByName(params, name) ==
    IF \E i \in 1..Len(params) : Get(params[i], "@_name") = Str(name)
    THEN params[CHOOSE i \in 1..Len(params) : Get(params[i], "@_name") = Str(name) /\ \A j \in 1..(i - 1) : Get(params[j], "@_name") # Str(name)]
    ELSE Undef

DigitValue(c) == (CHOOSE i \in 1..Len(DigitChars) : DigitChars[i] = c) - 1

IsDigit(c) == \E i \in 1..Len(DigitChars) : DigitChars[i] = c

RECURSIVE DigitsValue(_, _)
DigitsValue(s, acc) ==
    IF s = <<>> \/ ~IsDigit(Head(s)) THEN acc
    ELSE DigitsValue(Tail(s), acc * 10 + DigitValue(Head(s)))

\* parseInt(s, 10): leading white space, an optional sign, then the longest
\* run of digits; NaN when there is no digit.
ParseInt(s) ==
    LET t == TrimLeft(s)
        neg == t # <<>> /\ Head(t) = "-"
        u == IF t # <<>> /\ Head(t) \in {"-", "+"} THEN Tail(t) ELSE t
    IN IF u = <<>> \/ ~IsDigit(Head(u)) THEN [nan |-> TRUE, n |-> 0]
       ELSE [nan |-> FALSE, n |-> IF neg THEN 0 - DigitsValue(u, 0) ELSE DigitsValue(u, 0)]

(***************************************************************************)
(* The archive (JSZip): an ordered list of entries, each with its path, a  *)
(* directory flag and whether reading its data fails.  contents.files is   *)
(* keyed by the exact path.                                                *)
(***************************************************************************)
Entry(path, dir, corrupt) == [path |-> path, dir |-> dir, corrupt |-> corrupt]

\* contents.files[path]
HasEntry(entries, path) == \E i \in 1..Len(entries) : entries[i].path = path

EntryAt(entries, path) == entries[CHOOSE i \in 1..Len(entries) : entries[i].path = path]

\* contents.file(name): the non-directory entry stored under exactly this name
ZipFile(entries, name) == HasEntry(entries, name) /\ ~EntryAt(entries, name).dir

(***************************************************************************)
(* Map<string, string> with insertion-ordered keys: a list of key/value    *)
(* pairs; set() on an existing key replaces the value in place.            *)
(***************************************************************************)
MapHas(m, key) == \E i \in 1..Len(m) : m[i].key = key

\* Map.get: the empty string stands for undefined (no stored path is empty)
MapGet(m, key) == IF MapHas(m, key) THEN m[CHOOSE i \in 1..Len(m) : m[i].key = key].val ELSE <<>>

MapSet(m, key, val) ==
    IF MapHas(m, key)
    THEN [i \in 1..Len(m) |-> IF m[i].key = key THEN [key |-> key, val |-> val] ELSE m[i]]
    ELSE Append(m, [key |-> key, val |-> val])

\* normalizeSearch
normalizeSearch(s) == IF s = <<>> THEN <<>> ELSE CollapseSpaces(NFC(ToLowerCase(Trim(s))))

Separators == {"/", "\\"}

\* s.split(/[/\\]/).pop()
LastSegment(s) ==
    IF \E i \in 1..Len(s) : s[i] \in Separators
    THEN LET last == CHOOSE i \in 1..Len(s) : s[i] \in Separators /\ \A j \in (i + 1)..Len(s) : s[j] \notin Separators
         IN SubSeq(s, last + 1, Len(s))
    ELSE s

\* s.split(/[/\\]/).pop() || s
BaseNameOf(s) == IF LastSegment(s) = <<>> THEN s ELSE LastSegment(s)

Esc2F == <<"%","2","F">>

\* if (key !== normPath) zipFileMap.set(key, path)
SetIfDiffers(m, key, normPath, path) == IF key # normPath THEN MapSet(m, key, path) ELSE m

\* The decoded variant; a URIError of decodeURIComponent is swallowed
SetDecoded(m, dec, normPath, path) == IF dec.ok THEN SetIfDiffers(m, normalizeSearch(dec.s), normPath, path) ELSE m

\* The three zipFileMap insertions of one entry
IndexZip(zip, path, normPath) ==
    SetIfDiffers(SetDecoded(MapSet(zip, normPath, path), DecodeURIComponent(path), normPath, path),
                 normalizeSearch(ReplaceAll(EncodeURIComponent(path), Esc2F, <<"/">>)), normPath, path)

\* The three baseNameMap insertions of one entry
IndexBase(base, path, normBase) ==
    MapSet(MapSet(MapSet(base, normBase, path), ReplaceAll(normBase, <<"+">>, <<" ">>), path),
           ReplaceAll(normBase, <<" ">>, <<"+">>), path)

\* Fault injection: the directory test inverted, files are skipped
IndexEntryInverted(maps, entry) ==
    IF ~entry.dir THEN maps
    ELSE [zip |-> IndexZip(maps.zip, entry.path, normalizeSearch(entry.path)),
          base |-> IndexBase(maps.base, entry.path, normalizeSearch(BaseNameOf(entry.path)))]

\* One iteration of the index build: the forEach body over contents.files
IndexEntry(maps, entry) ==
    IF entry.dir THEN maps
    ELSE [zip |-> IndexZip(maps.zip, entry.path, normalizeSearch(entry.path)),
          base |-> IndexBase(maps.base, entry.path, normalizeSearch(BaseNameOf(entry.path)))]

EmptyMaps == [zip |-> <<>>, base |-> <<>>]

RECURSIVE BuildIndex(_, _)
BuildIndex(entries, n) == IF n = 0 THEN EmptyMaps ELSE IndexEntry(BuildIndex(entries, n - 1), entries[n])

(***************************************************************************)
(* extractFile: the media resolver.                                        *)
(***************************************************************************)
\* A resolved File: the entry its blob was read from and the name it is given.
\* NoFile stands for undefined.
NoFile == [path |-> <<>>, name |-> <<>>]

KindImages == <<"I","m","a","g","e","s">>
KindAudio == <<"A","u","d","i","o">>
KindVideo == <<"V","i","d","e","o">>
KindTexts == <<"T","e","x","t","s">>

\* Set.add keeps the first insertion
AddCand(cs, c) == IF \E i \in 1..Len(cs) : cs[i] = c THEN cs ELSE Append(cs, c)

\* filename.replace(/^@/, '')
StripAt(s) == IF s # <<>> /\ Head(s) = "@" THEN Tail(s) ELSE s

\* decodeURIComponent inside try/catch: a URIError adds no candidate
AddDecodedWith(cs, dec) == IF dec.ok THEN AddCand(cs, dec.s) ELSE cs

AddDecoded(cs, s) == AddDecodedWith(cs, DecodeURIComponent(s))

EncodedCandidate(s) ==
    ReplaceAll(ReplaceAll(ReplaceAll(EncodeURIComponent(s), Esc2F, <<"/">>), <<"(">>, <<"%","2","8">>), <<")">>, <<"%","2","9">>)

HtmlDecoded(s) == ReplaceAll(ReplaceAll(s, <<"&","a","m","p",";">>, <<"&">>), <<"&","q","u","o","t",";">>, <<"\"">>)

\* The candidate set, in insertion order
CandidatesOf(rawName, cleanName, baseName) ==
    LET c1 == AddCand(AddCand(AddCand(<<>>, cleanName), baseName), rawName)
        c2 == AddCand(AddCand(c1, NFC(cleanName)), NFD(cleanName))
        c3 == AddDecoded(AddDecoded(c2, cleanName), baseName)
        c4 == AddCand(c3, EncodedCandidate(cleanName))
        c5 == AddCand(AddCand(c4, ReplaceAll(cleanName, <<"+">>, <<" ">>)), ReplaceAll(cleanName, <<" ">>, <<"+">>))
    IN AddCand(c5, HtmlDecoded(cleanName))

\* rawName, cleanName and baseName of a reference
CleanName(filename) == Trim(StripAt(filename))

Candidates(filename) == CandidatesOf(StripAt(filename), CleanName(filename), BaseNameOf(CleanName(filename)))

\* Fault injection: the folders are tried before the archive root
PrefixesRootLast(type) ==
    << type \o <<"/">>, KindImages \o <<"/">>, KindAudio \o <<"/">>, KindVideo \o <<"/">>,
       KindTexts \o <<"/">>, ToLowerCase(type) \o <<"/">>, <<>> >>

Prefixes(type) ==
    << <<>>, type \o <<"/">>, KindImages \o <<"/">>, KindAudio \o <<"/">>, KindVideo \o <<"/">>,
       KindTexts \o <<"/">>, ToLowerCase(type) \o <<"/">> >>

\* Step 3: every prefix with every candidate, prefixes outermost
ProbesOf(pre, cands) == Flatten([p \in 1..Len(pre) |-> [c \in 1..Len(cands) |-> normalizeSearch(pre[p] \o cands[c])]])

PathProbes(cands, type) == ProbesOf(Prefixes(type), cands)

\* Step 4: every candidate's own base name
BaseProbes(cands) == [c \in 1..Len(cands) |-> normalizeSearch(BaseNameOf(cands[c]))]

\* actualPath && contents.files[actualPath]
PathHit(entries, zip, key) == MapGet(zip, key) # <<>> /\ HasEntry(entries, MapGet(zip, key))

\* The first probe of step 3 that hits, or 0
FirstPathHit(entries, zip, probes) ==
    IF \E i \in 1..Len(probes) : PathHit(entries, zip, probes[i])
    THEN CHOOSE i \in 1..Len(probes) : PathHit(entries, zip, probes[i]) /\ \A j \in 1..(i - 1) : ~PathHit(entries, zip, probes[j])
    ELSE 0

\* The first probe of step 4 that the map answers with a path, or 0
FirstHit(m, probes) ==
    IF \E i \in 1..Len(probes) : MapGet(m, probes[i]) # <<>>
    THEN CHOOSE i \in 1..Len(probes) : MapGet(m, probes[i]) # <<>> /\ \A j \in 1..(i - 1) : MapGet(m, probes[j]) = <<>>
    ELSE 0

\* Step 5: Array.from(baseNameMap.keys()).find(k => k.includes(t) || t.includes(k))
ScanMatches(key, targetBase) == Includes(key, targetBase) \/ Includes(targetBase, key)

FirstScan(m, targetBase) ==
    IF \E i \in 1..Len(m) : ScanMatches(m[i].key, targetBase)
    THEN CHOOSE i \in 1..Len(m) : ScanMatches(m[i].key, targetBase) /\ \A j \in 1..(i - 1) : ~ScanMatches(m[j].key, targetBase)
    ELSE 0

DesperateMinLen == 5

\* Fault injection: the last resort takes the first indexed file, whatever its name
DesperateHitAnyName(m, targetBase) == IF Len(m) > 0 THEN 1 ELSE 0

\* Fault injection: the last resort is tried whatever the length of the name
DesperateHitAnyLength(m, targetBase) == FirstScan(m, targetBase)

\* if (targetBase.length > 5) ... find(...), or 0
DesperateHit(m, targetBase) == IF Len(targetBase) > DesperateMinLen THEN FirstScan(m, targetBase) ELSE 0

\* contents.file(path).async('blob'), then new File([blob], baseName): reading
\* a damaged entry rejects.
ReadBlob(entries, path, baseName, via) ==
    IF EntryAt(entries, path).corrupt
    THEN [threw |-> TRUE, file |-> NoFile, via |-> via]
    ELSE [threw |-> FALSE, file |-> [path |-> path, name |-> baseName], via |-> via]

\* The chain of steps 3, 4 and 5: the first that hits decides
ResolveAt(entries, maps, baseName, probes, bases, hit3, hit4, hit5) ==
    IF hit3 # 0 THEN ReadBlob(entries, MapGet(maps.zip, probes[hit3]), baseName, "path")
    ELSE IF hit4 # 0 THEN ReadBlob(entries, MapGet(maps.base, bases[hit4]), baseName, "base")
    ELSE IF hit5 # 0 /\ maps.base[hit5].key # <<>> THEN ReadBlob(entries, maps.base[hit5].val, baseName, "scan")
    ELSE [threw |-> FALSE, file |-> NoFile, via |-> "none"]

ResolveProbes(entries, maps, baseName, probes, bases) ==
    ResolveAt(entries, maps, baseName, probes, bases,
              FirstPathHit(entries, maps.zip, probes), FirstHit(maps.base, bases),
              DesperateHit(maps.base, normalizeSearch(baseName)))

ResolveCandidates(entries, maps, baseName, cands, type) ==
    ResolveProbes(entries, maps, baseName, PathProbes(cands, type), BaseProbes(cands))

\* The body of extractFile's try block
ExtractFileTry(entries, maps, filename, type) ==
    ResolveCandidates(entries, maps, BaseNameOf(CleanName(filename)), Candidates(filename), type)

\* Fault injection: extractFile without its try/catch
RethrowExtract(r) == r

\* try { ... } catch (err) { console.error(...) }; return undefined
CatchExtract(r) == IF r.threw THEN [threw |-> FALSE, file |-> NoFile, via |-> "error"] ELSE r

\* extractFile
extractFile(entries, maps, filename, type) ==
    IF filename = <<>> THEN [threw |-> FALSE, file |-> NoFile, via |-> "none"]
    ELSE CatchExtract(ExtractFileTry(entries, maps, filename, type))

(***************************************************************************)
(* String literals of the source.                                          *)
(***************************************************************************)
sText == <<"t","e","x","t">>
sSay == <<"s","a","y">>
sImage == <<"i","m","a","g","e">>
sVoice == <<"v","o","i","c","e">>
sAudio == <<"a","u","d","i","o">>
sVideo == <<"v","i","d","e","o">>
sQuestion == <<"q","u","e","s","t","i","o","n">>
sAnswer == <<"a","n","s","w","e","r">>
sAnswerType == <<"a","n","s","w","e","r","T","y","p","e">>
sAnswerOptions == <<"a","n","s","w","e","r","O","p","t","i","o","n","s">>
sSelect == <<"s","e","l","e","c","t">>
sGroup == <<"g","r","o","u","p">>
sFinal == <<"f","i","n","a","l">>
sTheme == <<"t","h","e","m","e">>
sCost == <<"c","o","s","t">>
sCat == <<"c","a","t">>
sBagcat == <<"b","a","g","c","a","t">>
sSponsored == <<"s","p","o","n","s","o","r","e","d">>
sSecret == <<"s","e","c","r","e","t">>
sStake == <<"s","t","a","k","e">>
sSelectionMode == <<"s","e","l","e","c","t","i","o","n","M","o","d","e">>
sExceptCurrent == <<"e","x","c","e","p","t","C","u","r","r","e","n","t">>
sCurrent == <<"c","u","r","r","e","n","t">>
sAny == <<"a","n","y">>

\* The Russian literals of the special descriptions, letter by letter for the
\* one that is interpolated and as one token each for the fixed ones.
DescThemePrefix == <<"cyr_T","cyr_e","cyr_m","cyr_a",":"," ">>
DescCostInfix == <<","," ","cyr_S","cyr_t","cyr_o","cyr_i","cyr_m","cyr_o","cyr_s","cyr_t","cyr_soft",":"," ">>
DescBet == <<"lit_Vopros_so_stavkoy">>
DescSecret == <<"lit_Sekretnyy_vopros">>
DescSecretGive == <<"lit_Sekretnyy_vopros_(Otdat_drugomu)">>
DescSecretSelf == <<"lit_Sekretnyy_vopros_(Igrat_samomu)">>
DescSecretAny == <<"lit_Sekretnyy_vopros_(Vybor_igroka)">>
DescAuction == <<"lit_Svoya_igra_(Auktsion)">>

(***************************************************************************)
(* extractContentItems: the schema adapter.                                *)
(***************************************************************************)
\* item['@_type'] || 'text', and getText(item)
ContentItem(node) ==
    [type |-> IF Truthy(Get(node, "@_type")) THEN ToStr(Get(node, "@_type")) ELSE sText, text |-> getText(node)]

ParamsOf(q) == Get(Get(q, "params"), "param")

ContentItems(nodes) == [i \in 1..Len(nodes) |-> ContentItem(nodes[i])]

\* The modern shape: the params entry named as the slot, with items
SlotParam(q, target) == IF Truthy(ParamsOf(q)) THEN FindByName(asArray(ParamsOf(q)), target) ELSE Undef

\* Fault injection: the scenario read for either slot
ItemsOrAtomsAnySlot(param, atoms, target) ==
    IF Truthy(param) /\ Truthy(Get(param, "item")) THEN ContentItems(asArray(Get(param, "item")))
    ELSE IF Truthy(atoms) THEN ContentItems(asArray(atoms))
    ELSE <<>>

ItemsOrAtoms(param, atoms, target) ==
    IF Truthy(param) /\ Truthy(Get(param, "item")) THEN ContentItems(asArray(Get(param, "item")))
    ELSE IF target = sQuestion /\ Truthy(atoms) THEN ContentItems(asArray(atoms))
    ELSE <<>>

extractContentItems(q, target) == ItemsOrAtoms(SlotParam(q, target), Get(Get(q, "scenario"), "atom"), target)

(***************************************************************************)
(* parseContentItems: the content classifier.                              *)
(***************************************************************************)
EmptyContent == [threw |-> FALSE, type |-> sText, textParts |-> <<>>, image |-> NoFile, audio |-> NoFile, video |-> NoFile]

\* The archive folder a media item is looked up in
MediaKind(type) == IF type = sImage THEN KindImages ELSE IF type = sVideo THEN KindVideo ELSE KindAudio

\* Fault injection: an audio item sets the type whatever it was
ApplyMediaAudioWins(acc, type, r) ==
    IF r.threw THEN [acc EXCEPT !.threw = TRUE]
    ELSE IF type = sImage THEN [acc EXCEPT !.image = r.file]
    ELSE IF type = sVideo THEN [acc EXCEPT !.video = r.file, !.type = sVideo]
    ELSE [acc EXCEPT !.audio = r.file, !.type = sAudio]

\* Fault injection: the type follows the media only when a file was found
ApplyMediaIfResolved(acc, type, r) ==
    IF r.threw THEN [acc EXCEPT !.threw = TRUE]
    ELSE IF type = sImage THEN [acc EXCEPT !.image = r.file]
    ELSE IF type = sVideo THEN [acc EXCEPT !.video = r.file, !.type = IF r.file # NoFile THEN sVideo ELSE @]
    ELSE [acc EXCEPT !.audio = r.file, !.type = IF @ = sText /\ r.file # NoFile THEN sAudio ELSE @]

\* image = await extractor(...), and so on; a rejected extractor ends the call
ApplyMedia(acc, type, r) ==
    IF r.threw THEN [acc EXCEPT !.threw = TRUE]
    ELSE IF type = sImage THEN [acc EXCEPT !.image = r.file]
    ELSE IF type = sVideo THEN [acc EXCEPT !.video = r.file, !.type = sVideo]
    ELSE [acc EXCEPT !.audio = r.file, !.type = IF @ = sText THEN sAudio ELSE @]

\* One iteration of the loop over the items
ClassifyItem(acc, item, entries, maps) ==
    IF acc.threw THEN acc
    ELSE IF item.type \in {sText, sSay}
         THEN IF item.text # <<>> /\ Head(item.text) # "@"
              THEN [acc EXCEPT !.textParts = Append(@, item.text)]
              ELSE acc
    ELSE IF item.type \in {sImage, sVoice, sAudio, sVideo} /\ item.text # <<>>
         THEN ApplyMedia(acc, item.type, extractFile(entries, maps, item.text, MediaKind(item.type)))
    ELSE acc

RECURSIVE ClassifyItems(_, _, _, _)
ClassifyItems(items, n, entries, maps) ==
    IF n = 0 THEN EmptyContent
    ELSE ClassifyItem(ClassifyItems(items, n - 1, entries, maps), items[n], entries, maps)

\* Fault injection: the parts are joined without the line break
JoinLinesNoBreak(parts) == Flatten(parts)

\* Array.prototype.join('\n')
RECURSIVE JoinLines(_)
JoinLines(parts) ==
    IF parts = <<>> THEN <<>>
    ELSE IF Len(parts) = 1 THEN parts[1]
    ELSE parts[1] \o <<"\n">> \o JoinLines(Tail(parts))

\* The returned object; text is textParts.join('\n').trim() || undefined, the
\* empty string standing for undefined.
ContentResult(acc) ==
    [threw |-> acc.threw, type |-> acc.type, text |-> Trim(JoinLines(acc.textParts)),
     image |-> acc.image, audio |-> acc.audio, video |-> acc.video]

parseContentItems(items, entries, maps) == ContentResult(ClassifyItems(items, Len(items), entries, maps))

(***************************************************************************)
(* processRound, per question.                                             *)
(***************************************************************************)
\* q['@_price'] || q['@_cost'] || q['@_value'] || q['@_Price'], then the child
\* elements when that is undefined
PriceValue(q) ==
    LET attr == OrElse(OrElse(OrElse(Get(q, "@_price"), Get(q, "@_cost")), Get(q, "@_value")), Get(q, "@_Price"))
    IN IF attr.k # "undef" THEN attr
       ELSE IF Truthy(Get(q, "price")) THEN Str(getText(Get(q, "price")))
       ELSE IF Truthy(Get(q, "cost")) THEN Str(getText(Get(q, "cost")))
       ELSE IF Truthy(Get(q, "value")) THEN Str(getText(Get(q, "value")))
       ELSE Undef

\* parseInt(String(priceValue), 10) || 0
IntOrZero(parsed) == IF parsed.nan THEN 0 ELSE parsed.n

PriceOf(q) == IntOrZero(ParseInt(ToStr(PriceValue(q))))

\* answerText ? `${answerText} (${answerData.text})` : answerData.text
JoinAnswer(first, answerDataText) ==
    IF answerDataText # <<>>
    THEN IF first # <<>> THEN first \o <<" ", "(">> \o answerDataText \o <<")">> ELSE answerDataText
    ELSE first

FirstAnswer(answers) == IF Len(answers) > 0 THEN getText(answers[1]) ELSE <<>>

\* The text answer: the first right answer, then the answer slot's text
AnswerText(q, answerDataText) == JoinAnswer(FirstAnswer(asArray(Get(Get(q, "right"), "answer"))), answerDataText)

\* params.find(p => p['@_name'] === 'answerType')
TypeParam(params) == FindByName(params, sAnswerType)

\* typeParam && getText(typeParam) === 'select'
IsSelect(q) ==
    /\ Truthy(ParamsOf(q))
    /\ Truthy(TypeParam(asArray(ParamsOf(q))))
    /\ getText(TypeParam(asArray(ParamsOf(q)))) = sSelect

\* params.find(p => p['@_name'] === 'answerOptions' && p['@_type'] === 'group')
OptionsGroup(params) ==
    IF \E i \in 1..Len(params) : Get(params[i], "@_name") = Str(sAnswerOptions) /\ Get(params[i], "@_type") = Str(sGroup)
    THEN params[CHOOSE i \in 1..Len(params) :
                    /\ Get(params[i], "@_name") = Str(sAnswerOptions) /\ Get(params[i], "@_type") = Str(sGroup)
                    /\ \A j \in 1..(i - 1) : ~(Get(params[j], "@_name") = Str(sAnswerOptions) /\ Get(params[j], "@_type") = Str(sGroup))]
    ELSE Undef

\* The option's text: its own, or that of its first nested item
OptionText(direct, opt) ==
    IF direct = <<>> /\ Truthy(Get(opt, "item")) /\ Len(asArray(Get(opt, "item"))) > 0
    THEN getText(asArray(Get(opt, "item"))[1])
    ELSE direct

\* `${opt['@_name']}: ${text}`
OptionLine(opt) == ToStr(Get(opt, "@_name")) \o <<":", " ">> \o OptionText(getText(opt), opt)

\* Fault injection: the options listed last to first
OptionLinesReversed(opts) == [i \in 1..Len(opts) |-> OptionLine(opts[Len(opts) + 1 - i])]

OptionLines(opts) == [i \in 1..Len(opts) |-> OptionLine(opts[i])]

GroupOptions(group) == IF Truthy(group) /\ Truthy(Get(group, "param")) THEN OptionLines(asArray(Get(group, "param"))) ELSE <<>>

\* The answerOptions list built for a select question (empty otherwise)
AnswerOptions(q) == IF IsSelect(q) THEN GroupOptions(OptionsGroup(asArray(ParamsOf(q)))) ELSE <<>>

\* Fault injection: select only overrides a text question
FinalTypeOfText(q, inferred) == IF IsSelect(q) /\ inferred = sText THEN sSelect ELSE inferred

\* finalType
FinalType(q, inferred) == IF IsSelect(q) THEN sSelect ELSE inferred

\* typeSource: the type child element (the first of several), or the question
\* itself when the type is an attribute
TypeSource(q) ==
    IF Truthy(Get(q, "type")) THEN (IF Get(q, "type").k = "arr" THEN Get(q, "type").a[1] ELSE Get(q, "type"))
    ELSE IF Truthy(Get(q, "@_type")) THEN q
    ELSE Undef

\* typeName of a type child element; the empty string stands for every falsy value
ChildTypeName(src) ==
    IF Truthy(Get(src, "@_name")) THEN ToStr(Get(src, "@_name"))
    ELSE IF src.k = "str" THEN src.s ELSE <<>>

TypeName(q) ==
    IF Truthy(Get(q, "type")) THEN ChildTypeName(TypeSource(q))
    ELSE IF Truthy(Get(q, "@_type")) THEN ToStr(Get(q, "@_type"))
    ELSE <<>>

\* getParams()
TypeParams(src) == asArray(Get(src, "param")) \o asArray(Get(Get(src, "params"), "param"))

ParamText(params, name) == IF Len(params) > 0 THEN getText(FindByName(params, name)) ELSE <<>>

\* Fault injection: no fallback to the attribute
ValueFromParams(fromParams, src, attr) == fromParams

\* if (!value) value = typeSource[attr] || ''
ValueOrAttr(fromParams, src, attr) ==
    IF fromParams # <<>> THEN fromParams
    ELSE IF Truthy(Get(src, attr)) THEN ToStr(Get(src, attr)) ELSE <<>>

\* themeValue / costValue of a cat question
CatValue(src, name, attr) == ValueOrAttr(ParamText(TypeParams(src), name), src, attr)

CatDescription(src) == DescThemePrefix \o CatValue(src, sTheme, "@_theme") \o DescCostInfix \o CatValue(src, sCost, "@_cost")

SecretFor(mode) ==
    CASE mode = sExceptCurrent -> DescSecretGive
      [] mode = sCurrent -> DescSecretSelf
      [] mode = sAny -> DescSecretAny
      [] OTHER -> DescSecret

SecretDescription(src) == SecretFor(getText(FindByName(TypeParams(src), sSelectionMode)))

\* specialType and specialDesc, from the lower-cased type name
SpecialFor(lowerTypeName, src) ==
    IF lowerTypeName = <<>> THEN [type |-> "none", desc |-> <<>>]
    ELSE IF lowerTypeName = sBagcat \/ lowerTypeName = sCat THEN [type |-> "cat", desc |-> CatDescription(src)]
    ELSE IF lowerTypeName = sSponsored THEN [type |-> "bet", desc |-> DescBet]
    ELSE IF lowerTypeName = sSecret THEN [type |-> "special", desc |-> SecretDescription(src)]
    ELSE IF lowerTypeName = sStake THEN [type |-> "auction", desc |-> DescAuction]
    ELSE [type |-> "none", desc |-> <<>>]

\* Fault injection: the type name compared in the letter case it is written in
SpecialOfExactCase(q) == SpecialFor(TypeName(q), TypeSource(q))

SpecialOf(q) == SpecialFor(ToLowerCase(TypeName(q)), TypeSource(q))

\* qId.replace(/[^a-zA-Z0-9_-]/g, '')
IsIdChar(c) ==
    \/ \E i \in 1..26 : UpperChars[i] = c \/ LowerChars[i] = c
    \/ IsDigit(c)
    \/ c \in {"_", "-"}

RECURSIVE CleanId(_)
CleanId(s) ==
    IF s = <<>> THEN <<>>
    ELSE IF IsIdChar(Head(s)) THEN <<Head(s)>> \o CleanId(Tail(s)) ELSE CleanId(Tail(s))

\* cleanId of `${roundName}_${category}_${price}_${random}`
QuestionId(roundName, category, price, rnd) ==
    CleanId(ToStr(roundName) \o <<"_">> \o ToStr(category) \o <<"_">> \o IntToStr(price) \o <<"_">> \o rnd)

\* storageEntry: the slots that hold a file
FilledSlots(slots) == [s \in {x \in DOMAIN slots : slots[x] # NoFile} |-> slots[s]]

StorageSlots(qd, ad) ==
    FilledSlots([questionImage |-> qd.image, questionAudio |-> qd.audio, questionVideo |-> qd.video,
                 answerImage |-> ad.image, answerAudio |-> ad.audio, answerVideo |-> ad.video,
                 audio |-> qd.audio, video |-> qd.video])

\* newQuestion and storageEntry, from the parsed slots
Assemble(q, roundName, category, rnd, pos, qd, ad, price, special) ==
    [threw |-> qd.threw \/ ad.threw,
     question |-> [id |-> QuestionId(roundName, category, price, rnd), round |-> roundName,
                   category |-> category, score |-> price,
                   type |-> FinalType(q, qd.type), question |-> qd.text,
                   answer |-> AnswerText(q, ad.text), answerOptions |-> AnswerOptions(q),
                   specialType |-> special.type, specialDescription |-> special.desc,
                   questionImage |-> qd.image, questionAudio |-> qd.audio, questionVideo |-> qd.video,
                   answerImage |-> ad.image, answerAudio |-> ad.audio, answerVideo |-> ad.video,
                   pos |-> pos],
     storage |-> StorageSlots(qd, ad)]

\* One iteration of the loop over a theme's questions: the Question pushed and
\* the storage entry, or a thrown error
ProcessQuestion(q, roundName, category, entries, maps, rnd, pos) ==
    Assemble(q, roundName, category, rnd, pos,
             parseContentItems(extractContentItems(q, sQuestion), entries, maps),
             parseContentItems(extractContentItems(q, sAnswer), entries, maps),
             PriceOf(q), SpecialOf(q))

(***************************************************************************)
(* Inputs: XML nodes as fast-xml-parser delivers them.                     *)
(***************************************************************************)
\* One element, or an array of several, as the parser stores repeated children
Children(list) == IF Len(list) = 0 THEN Undef ELSE IF Len(list) = 1 THEN list[1] ELSE Arr(list)

Atom(type, text) == Obj(("@_type" :> Str(type)) @@ ("#text" :> Str(text)))

Scenario(atoms) == Obj("atom" :> Children(atoms))

Right(text) == Obj("answer" :> Str(text))

ContentParam(name, items) == Obj(("@_name" :> Str(name)) @@ ("@_type" :> Str(<<"c","o","n","t","e","n","t">>)) @@ ("item" :> Children(items)))

TextParam(name, text) == Obj(("@_name" :> Str(name)) @@ ("#text" :> Str(text)))

Params(list) == Obj("param" :> Children(list))

ThemeNode(name, questions) == Obj(("@_name" :> Str(name)) @@ ("questions" :> Obj("question" :> Children(questions))))

RoundNode(name, themes) == Obj(("@_name" :> Str(name)) @@ ("themes" :> Obj("theme" :> Children(themes))))

TypedRoundNode(name, type, themes) == Obj(("@_name" :> Str(name)) @@ ("@_type" :> Str(type)) @@ ("themes" :> Obj("theme" :> Children(themes))))

PackageNode(rounds) == Obj("package" :> Obj("rounds" :> Obj("round" :> Children(rounds))))

\* File names and texts used by the inputs
fQJpg == <<"q",".","j","p","g">>
fAMp3 == <<"a",".","m","p","3">>
fGone == <<"g","o","n","e",".","p","n","g">>
pImagesQJpg == KindImages \o <<"/">> \o fQJpg
pAudioAMp3 == KindAudio \o <<"/">> \o fAMp3
pContentXml == <<"c","o","n","t","e","n","t",".","x","m","l">>
pContentXmlUpper == <<"C","o","n","t","e","n","t",".","X","M","L">>
tWhat == <<"2","+","2","?">>
tFour == <<"4">>
tCats == <<"C","a","t","s">>
t100 == <<"1","0","0">>
t200 == <<"2","0","0">>
t500 == <<"5","0","0">>

\* The questions of the package of tests/SiqService.test.ts, and irregular ones
QText == Obj(("@_price" :> Str(t100)) @@ ("scenario" :> Scenario(<<Atom(sText, tWhat)>>)) @@ ("right" :> Right(tFour)))

QImage == Obj(("@_price" :> Str(t200)) @@ ("params" :> Params(<<ContentParam(sQuestion, <<Atom(sImage, fQJpg)>>)>>)) @@ ("right" :> Right(tCats)))

QCat ==
    Obj(("@_price" :> Str(t200)) @@ ("@_type" :> Str(sCat))
        @@ ("params" :> Params(<<TextParam(sTheme, tCats), Obj(("@_name" :> Str(sCost)) @@ ("#text" :> Num(500)))>>))
        @@ ("scenario" :> Scenario(<<Atom(sText, tWhat)>>)) @@ ("right" :> Right(tFour)))

\* no price, an item of an unknown kind, a reference to a file not in the archive
QMissing ==
    Obj(("params" :> Params(<<ContentParam(sQuestion, <<Atom(<<"m","a","r","k","e","r">>, tWhat), Atom(sImage, fGone)>>),
                              ContentParam(sAnswer, <<Atom(sVoice, <<"@">> \o fAMp3)>>)>>))
        @@ ("price" :> Num(200)))

\* a question element that holds only text, and one with malformed type and params nodes
QPrimitive == Str(tWhat)

QMalformed == Obj(("@_price" :> Str(<<"a","b","c">>)) @@ ("type" :> Arr(<<Str(<<>>), Num(5)>>)) @@ ("params" :> Str(tWhat)) @@ ("right" :> Str(<<>>)))

QSelect ==
    Obj(("@_price" :> Str(t200))
        @@ ("params" :> Params(<<ContentParam(sQuestion, <<Atom(sVideo, fQJpg)>>),
                                  TextParam(sAnswerType, sSelect),
                                  Obj(("@_name" :> Str(sAnswerOptions)) @@ ("@_type" :> Str(sGroup))
                                      @@ ("param" :> Arr(<<TextParam(<<"A">>, tFour), TextParam(<<"B">>, tCats)>>)))>>)))

nR1 == <<"R","1">>
nFinal == <<"F","i","n","a","l">>
nCyr == <<"cyr_R","cyr_a","cyr_u","cyr_n","cyr_d">>
nCyr2 == <<"cyr_T","cyr_e","cyr_m","cyr_a">>
nT1 == <<"T","1">>

\* The rounds a package is made of
RoundA == RoundNode(nR1, <<ThemeNode(nT1, <<QText, QImage>>), ThemeNode(nCyr, <<QCat>>)>>)
RoundB == TypedRoundNode(nFinal, sFinal, <<ThemeNode(nT1, <<QMissing>>)>>)
RoundC == RoundNode(nFinal, <<ThemeNode(nT1, <<QSelect, QPrimitive>>), Str(<<>>), Obj("questions" :> Obj("question" :> QPrimitive))>>)
RoundD == TypedRoundNode(nCyr, <<"F","i","n","a","l">>, <<ThemeNode(nCyr, <<QMalformed, QImage>>), ThemeNode(nCyr2, <<QCat>>)>>)
RoundE == Obj("@_type" :> Str(sFinal))
RoundSet == {RoundA, RoundB, RoundC, RoundD, RoundE, Str(<<>>)}

RECURSIVE SeqsUpTo(_, _)
SeqsUpTo(S, n) == IF n = 0 THEN {<<>>} ELSE SeqsUpTo(S, n - 1) \cup {Append(s, x) : s \in {t \in SeqsUpTo(S, n - 1) : Len(t) = n - 1}, x \in S}

Packages == {PackageNode(rs) : rs \in SeqsUpTo(RoundSet, MaxRounds)} \cup {Obj("package" :> Str(tWhat))}

\* The archives parsed: the root document under a name, and media entries
ArchiveSet ==
    { <<Entry(pContentXml, FALSE, FALSE)>>,
      <<Entry(pContentXml, FALSE, FALSE), Entry(KindImages \o <<"/">>, TRUE, FALSE), Entry(pImagesQJpg, FALSE, FALSE)>>,
      <<Entry(pImagesQJpg, FALSE, TRUE), Entry(pAudioAMp3, FALSE, FALSE), Entry(pContentXml, FALSE, FALSE)>>,
      <<Entry(pContentXmlUpper, FALSE, FALSE), Entry(pImagesQJpg, FALSE, FALSE)>>,
      <<Entry(pImagesQJpg, FALSE, FALSE)>>,
      <<Entry(pContentXml, FALSE, TRUE)>>,
      <<Entry(pContentXml \o <<"/">>, TRUE, FALSE)>> }

\* What the root document holds: nothing, text that is no XML, or a document
XmlKinds == {"empty", "malformed", "doc"}

\* Math.random().toString(36).substr(2, 5)
RandomSuffixes == {<<"k","3","x","9","q">>, <<"0","7","a","b">>}

(***************************************************************************)
(* The state of one parseSiq call.                                         *)
(***************************************************************************)
VARIABLES
    file,         \* the File given: the archive and what its root document holds
    pc,           \* where the call is: start, opened, read, index, rounds, done, failed
    error,        \* what was thrown, "none" while nothing was
    xmlObj,       \* the parsed document
    zipFileMap,   \* normalized path -> original path
    baseNameMap,  \* normalized base name -> original path
    idx,          \* the next entry of contents.files to index
    questions,    \* the Question list being built
    fileStorage,  \* question id -> storage entry
    roundTypes,   \* round name -> 'regular' | 'final'
    ri, ti, qi,   \* the round, theme and question the loops are at
    probe,        \* the resolver call under study (SpecResolve)
    unit,         \* the question under study (SpecQuestion)
    calls,        \* the parseSiq invocations in flight on one service (SpecConcurrent)
    frames,       \* the local bindings of those invocations (SpecConcurrent)
    state,        \* stateManager.state of the admin window (SpecSync, SpecApp)
    admin,        \* the admin window besides the game state: flags, pending continuations
    toTV,         \* BroadcastChannel messages on their way to the TV window
    toAdmin,      \* BroadcastChannel messages on their way to the admin window
    tv            \* the TV window: window.currentGameState, roundData, the scoreboard

vars == <<file, pc, error, xmlObj, zipFileMap, baseNameMap, idx, questions, fileStorage, roundTypes, ri, ti, qi, probe, unit, calls, frames, state, admin, toTV, toAdmin, tv>>

\* The variables the single call does not touch
otherVars == <<calls, frames, state, admin, toTV, toAdmin, tv>>

appVars == <<state, admin, toTV, toAdmin, tv>>

IdleApp == state = <<>> /\ admin = <<>> /\ toTV = <<>> /\ toAdmin = <<>> /\ tv = <<>>

IdleOther == calls = <<>> /\ frames = <<>> /\ IdleApp

NoProbe == [phase |-> "none"]
NoUnit == [phase |-> "none"]

Init ==
    /\ file \in {[openable |-> o, entries |-> a, xmlKind |-> x, tree |-> t] :
                    o \in BOOLEAN, a \in ArchiveSet, x \in XmlKinds, t \in Packages}
    /\ (~file.openable \/ file.xmlKind # "doc" \/ ~ZipFile(file.entries, pContentXml)) => file.tree = PackageNode(<<>>)
    /\ pc = "start"
    /\ error = "none"
    /\ xmlObj = Undef
    /\ zipFileMap = <<>>
    /\ baseNameMap = <<>>
    /\ idx = 0
    /\ questions = <<>>
    /\ fileStorage = <<>>
    /\ roundTypes = <<>>
    /\ ri = 0 /\ ti = 0 /\ qi = 0
    /\ probe = NoProbe
    /\ unit = NoUnit
    /\ IdleOther

Throw(what) ==
    /\ pc' = "failed"
    /\ error' = what

\* const contents = await zip.loadAsync(file)
LoadAsync ==
    /\ pc = "start"
    /\ IF file.openable THEN pc' = "opened" /\ error' = error ELSE Throw("zip")
    /\ UNCHANGED <<file, xmlObj, zipFileMap, baseNameMap, idx, questions, fileStorage, roundTypes, ri, ti, qi, probe, unit, otherVars>>

\* const contentXml = await contents.file('content.xml')?.async('string');
\* if (!contentXml) throw new Error('Invalid .siq file: content.xml not found')
ReadContentXml ==
    /\ pc = "opened"
    /\ IF ~ZipFile(file.entries, pContentXml) THEN Throw("content.xml not found")
       ELSE IF EntryAt(file.entries, pContentXml).corrupt THEN Throw("read")
       ELSE IF file.xmlKind = "empty" THEN Throw("content.xml not found")
       ELSE pc' = "read" /\ error' = error
    /\ UNCHANGED <<file, xmlObj, zipFileMap, baseNameMap, idx, questions, fileStorage, roundTypes, ri, ti, qi, probe, unit, otherVars>>

\* const xmlObj = this.parser.parse(contentXml): text that is no XML makes the
\* parser throw or yield a document without a package.
ParseXml ==
    /\ pc = "read"
    /\ \/ /\ file.xmlKind = "doc"
          /\ xmlObj' = file.tree
          /\ pc' = "index" /\ error' = error
       \/ /\ file.xmlKind = "malformed"
          /\ xmlObj' = Obj(<<>>)
          /\ pc' = "index" /\ error' = error
       \/ /\ file.xmlKind = "malformed"
          /\ xmlObj' = xmlObj
          /\ Throw("xml")
    /\ idx' = 1
    /\ UNCHANGED <<file, zipFileMap, baseNameMap, questions, fileStorage, roundTypes, ri, ti, qi, probe, unit, otherVars>>

\* Object.keys(contents.files).forEach(path => ...), one entry
IndexNext ==
    /\ pc = "index"
    /\ idx <= Len(file.entries)
    /\ \E maps \in {IndexEntry([zip |-> zipFileMap, base |-> baseNameMap], file.entries[idx])} :
          zipFileMap' = maps.zip /\ baseNameMap' = maps.base
    /\ idx' = idx + 1
    /\ UNCHANGED <<file, pc, error, xmlObj, questions, fileStorage, roundTypes, ri, ti, qi, probe, unit, otherVars>>

packageRounds == asArray(Get(Get(Get(xmlObj, "package"), "rounds"), "round"))

ThemesOf(round) == asArray(Get(Get(round, "themes"), "theme"))

QuestionsOf(theme) == asArray(Get(Get(theme, "questions"), "question"))

\* for (let i = 0; i < packageRounds.length; i++)
StartRounds ==
    /\ pc = "index"
    /\ idx > Len(file.entries)
    /\ pc' = "rounds"
    /\ ri' = 1 /\ ti' = 0 /\ qi' = 0
    /\ UNCHANGED <<file, error, xmlObj, zipFileMap, baseNameMap, idx, questions, fileStorage, roundTypes, probe, unit, otherVars>>

\* round['@_type'] === 'final' ? 'final' : 'regular'
RoundKind(round) == IF Get(round, "@_type") = Str(sFinal) THEN "final" ELSE "regular"

\* roundTypes[roundName] = roundType
SetRoundType(types, round) == (ToStr(Get(round, "@_name")) :> RoundKind(round)) @@ types

\* processRound, up to the loop over the themes
BeginRound ==
    /\ pc = "rounds"
    /\ ri <= Len(packageRounds)
    /\ ti = 0
    /\ roundTypes' = SetRoundType(roundTypes, packageRounds[ri])
    /\ ti' = 1 /\ qi' = 1
    /\ UNCHANGED <<file, pc, error, xmlObj, zipFileMap, baseNameMap, idx, questions, fileStorage, ri, probe, unit, otherVars>>

\* Fault injection: unshift in place of push
UnshiftQuestion(list, q) == <<q>> \o list

\* questions.push(newQuestion)
PushQuestion(list, q) == Append(list, q)

\* if (Object.keys(storageEntry).length > 0) fileStorage[cleanId] = storageEntry
StoreFiles(storage, id, slots) == IF DOMAIN slots # {} THEN (id :> slots) @@ storage ELSE storage

CurrentRound == packageRounds[ri]

CurrentTheme == ThemesOf(CurrentRound)[ti]

CurrentQuestion == QuestionsOf(CurrentTheme)[qi]

\* The body of the loop over a theme's questions
ProcessQuestionStep ==
    /\ pc = "rounds"
    /\ ri <= Len(packageRounds)
    /\ ti >= 1 /\ ti <= Len(ThemesOf(packageRounds[ri]))
    /\ qi <= Len(QuestionsOf(ThemesOf(packageRounds[ri])[ti]))
    /\ \E rnd \in RandomSuffixes :
       \E r \in {ProcessQuestion(CurrentQuestion, Get(CurrentRound, "@_name"), Get(CurrentTheme, "@_name"),
                                 file.entries, [zip |-> zipFileMap, base |-> baseNameMap], rnd, <<ri, ti, qi>>)} :
          IF r.threw
          THEN Throw("extract") /\ UNCHANGED <<questions, fileStorage, qi>>
          ELSE /\ questions' = PushQuestion(questions, r.question)
               /\ fileStorage' = StoreFiles(fileStorage, r.question.id, r.storage)
               /\ qi' = qi + 1
               /\ UNCHANGED <<pc, error>>
    /\ UNCHANGED <<file, xmlObj, zipFileMap, baseNameMap, idx, roundTypes, ri, ti, probe, unit, otherVars>>

\* The loop over the themes moves on
NextTheme ==
    /\ pc = "rounds"
    /\ ri <= Len(packageRounds)
    /\ ti >= 1 /\ ti <= Len(ThemesOf(packageRounds[ri]))
    /\ qi > Len(QuestionsOf(ThemesOf(packageRounds[ri])[ti]))
    /\ ti' = ti + 1 /\ qi' = 1
    /\ UNCHANGED <<file, pc, error, xmlObj, zipFileMap, baseNameMap, idx, questions, fileStorage, roundTypes, ri, probe, unit, otherVars>>

\* processRound returns and the loop over the rounds moves on
EndRound ==
    /\ pc = "rounds"
    /\ ri <= Len(packageRounds)
    /\ ti > Len(ThemesOf(packageRounds[ri]))
    /\ ri' = ri + 1 /\ ti' = 0 /\ qi' = 0
    /\ UNCHANGED <<file, pc, error, xmlObj, zipFileMap, baseNameMap, idx, questions, fileStorage, roundTypes, probe, unit, otherVars>>

\* return { questions, fileStorage, roundTypes }
Return ==
    /\ pc = "rounds"
    /\ ri > Len(packageRounds)
    /\ pc' = "done"
    /\ UNCHANGED <<file, error, xmlObj, zipFileMap, baseNameMap, idx, questions, fileStorage, roundTypes, ri, ti, qi, probe, unit, otherVars>>

Next ==
    \/ LoadAsync
    \/ ReadContentXml
    \/ ParseXml
    \/ IndexNext
    \/ StartRounds
    \/ BeginRound
    \/ ProcessQuestionStep
    \/ NextTheme
    \/ EndRound
    \/ Return

Spec == Init /\ [][Next]_vars

(***************************************************************************)
(* One question at a time: the loop body of processRound applied to every  *)
(* question node built from the parts below, against a fixed archive.      *)
(***************************************************************************)
MaxParams == 2

NamedParam(name) == Obj("@_name" :> Str(name))

NumParam(name, n) == Obj(("@_name" :> Str(name)) @@ ("#text" :> Num(n)))

GroupParam(name, nested) == Obj(("@_name" :> Str(name)) @@ ("@_type" :> Str(sGroup)) @@ ("param" :> Children(nested)))

\* <param name="B"><item>Cats</item></param>: the option's text is in a nested item
ItemOption(name, text) == Obj(("@_name" :> Str(name)) @@ ("item" :> Str(text)))

\* The params a question may carry
ParamPool ==
    { TextParam(sAnswerType, sSelect),
      TextParam(sAnswerType, sText),
      GroupParam(sAnswerOptions, <<TextParam(<<"A">>, tFour), ItemOption(<<"B">>, tCats)>>),
      GroupParam(sAnswerOptions, <<ItemOption(<<"B">>, tCats)>>),
      GroupParam(sAnswerOptions, <<>>),
      Obj(("@_name" :> Str(sAnswerOptions)) @@ ("param" :> TextParam(<<"A">>, tFour))),
      ContentParam(sQuestion, <<Atom(sVideo, fQJpg)>>),
      TextParam(sTheme, tCats) }

ParamLists == SeqsUpTo(ParamPool, MaxParams)

CatParams == <<TextParam(sTheme, tCats), NumParam(sCost, 500)>>

\* The ways a question declares its type: the attributes and the type child
\* element it carries
TypeDecls ==
    { <<>>,
      "@_type" :> Str(sCat),
      ("@_type" :> Str(<<"B","a","g","C","a","t">>)) @@ ("@_theme" :> Str(tCats)) @@ ("@_cost" :> Str(t500)),
      "type" :> Obj(("@_name" :> Str(sCat)) @@ ("param" :> Arr(CatParams))),
      "type" :> Obj(("@_name" :> Str(sBagcat)) @@ ("params" :> Params(<<NumParam(sCost, 500)>>)) @@ ("@_theme" :> Str(t200))),
      "type" :> Obj(("@_name" :> Str(<<"C","A","T">>)) @@ ("param" :> NamedParam(sTheme)) @@ ("@_cost" :> Str(t100))),
      "type" :> Str(sCat),
      "type" :> Arr(<<Obj(("@_name" :> Str(sSecret)) @@ ("param" :> TextParam(sSelectionMode, sAny))), Str(sCat)>>),
      ("type" :> Obj("param" :> Arr(CatParams))) @@ ("@_type" :> Str(sCat)),
      "@_type" :> Str(sSponsored),
      "@_type" :> Str(<<"S","t","a","k","e">>),
      "@_type" :> Str(<<"s","i","m","p","l","e">>) }

ScenarioDecls == { "scenario" :> Scenario(<<Atom(sText, tWhat)>>), "scenario" :> Scenario(<<Atom(sVoice, fAMp3), Atom(sImage, fQJpg)>>) }

ParamsField(list) == IF list = <<>> THEN <<>> ELSE "params" :> Params(list)

\* Questions that differ in their type declaration, params and scenario
DeclQuestions ==
    { Obj(("@_price" :> Str(t100)) @@ decl @@ ParamsField(list) @@ scen @@ ("right" :> Right(tFour))) :
        decl \in TypeDecls, list \in ParamLists, scen \in ScenarioDecls }

MaxItems == 2

\* <atom type="voice"/>: an item of a kind without a reference
BareItem(type) == Obj("@_type" :> Str(type))

\* The content items a slot may list: q.jpg and a.mp3 are in the archive
\* (whatever the kind they are asked as), gone.png is not
ItemPool ==
    { Atom(sImage, fQJpg), Atom(sImage, fAMp3), Atom(sImage, fGone),
      Atom(sVoice, fAMp3), Atom(sAudio, fQJpg), BareItem(sVoice), BareItem(sVideo),
      Atom(sVideo, fQJpg), Atom(sVideo, fGone), Atom(sVoice, fGone), Atom(sText, tWhat) }

ItemLists == SeqsUpTo(ItemPool, MaxItems)

SlotKinds == {"scenario", "question", "answer"}

\* The list as the legacy scenario, as the question slot of the params (beside
\* a scenario), or as the answer slot of the params (beside a scenario)
SlotFields(slot, items) ==
    CASE slot = "scenario" -> "scenario" :> Scenario(items)
      [] slot = "question" -> ("scenario" :> Scenario(<<Atom(sText, tFour)>>)) @@ ("params" :> Params(<<ContentParam(sQuestion, items)>>))
      [] OTHER -> ("scenario" :> Scenario(<<Atom(sImage, fQJpg), Atom(sText, tWhat)>>)) @@ ("params" :> Params(<<ContentParam(sAnswer, items)>>))

\* Questions that differ in the content list of one slot
ContentQuestions ==
    { Obj(("@_price" :> Str(t100)) @@ SlotFields(slot, items) @@ ("right" :> Right(tFour))) :
        slot \in SlotKinds, items \in ItemLists }

\* The ways a question spells its price: the attributes price, cost, value and
\* Price, and the child elements price, cost and value
PriceAttrs == { <<>>, "@_price" :> Str(t100), "@_price" :> Str(<<"a","b","c">>), "@_price" :> Str(<<"-","5">>),
                "@_price" :> Str(<<>>), "@_price" :> Str(<<"1","2","a","b","c">>) }

CostAttrs == { <<>>, "@_cost" :> Str(t200) }

ValueAttrs == { <<>>, "@_value" :> Str(t500) }

UpperPriceAttrs == { <<>>, "@_Price" :> Str(<<>>), "@_Price" :> Str(<<"5","0">>) }

PriceChildren == { <<>>, "price" :> Num(300), "price" :> Str(<<"a","b","c">>), "cost" :> Num(0 - 7), "value" :> Obj("#text" :> Num(40)) }

\* Questions that differ in the spelling of the price
PriceQuestions ==
    { Obj(pa @@ ca @@ va @@ ua @@ ch @@ ("scenario" :> Scenario(<<Atom(sText, tWhat)>>)) @@ ("right" :> Right(tFour))) :
        pa \in PriceAttrs, ca \in CostAttrs, va \in ValueAttrs, ua \in UpperPriceAttrs, ch \in PriceChildren }

UnitQuestions == DeclQuestions \cup ContentQuestions \cup PriceQuestions

UnitArchive == <<Entry(pContentXml, FALSE, FALSE), Entry(pImagesQJpg, FALSE, FALSE), Entry(pAudioAMp3, FALSE, FALSE)>>

UnitFile == [openable |-> TRUE, entries |-> UnitArchive, xmlKind |-> "doc", tree |-> PackageNode(<<>>)]

InitQuestion ==
    /\ unit \in {[phase |-> "input", q |-> q] : q \in UnitQuestions}
    /\ file = UnitFile
    /\ pc = "unit"
    /\ error = "none"
    /\ xmlObj = Undef
    /\ zipFileMap = BuildIndex(UnitArchive, Len(UnitArchive)).zip
    /\ baseNameMap = BuildIndex(UnitArchive, Len(UnitArchive)).base
    /\ idx = 0
    /\ questions = <<>>
    /\ fileStorage = <<>>
    /\ roundTypes = <<>>
    /\ ri = 0 /\ ti = 0 /\ qi = 0
    /\ probe = NoProbe
    /\ IdleOther

\* The loop body of processRound on the question under study
UnitProcess ==
    /\ unit.phase = "input"
    /\ \E rnd \in RandomSuffixes :
       \E r \in {ProcessQuestion(unit.q, Str(nR1), Str(nT1), file.entries, [zip |-> zipFileMap, base |-> baseNameMap], rnd, <<1, 1, 1>>)} :
          unit' = [phase |-> "parsed", q |-> unit.q, threw |-> r.threw, out |-> r.question, storage |-> r.storage,
                   questionItems |-> extractContentItems(unit.q, sQuestion),
                   answerItems |-> extractContentItems(unit.q, sAnswer)]
    /\ UNCHANGED <<file, pc, error, xmlObj, zipFileMap, baseNameMap, idx, questions, fileStorage, roundTypes, ri, ti, qi, probe, otherVars>>

NextQuestion == UnitProcess

SpecQuestion == InitQuestion /\ [][NextQuestion]_vars

\* Content items that bear on the slot text: literal text and speech, with
\* and without surrounding white space (kept by the parser inside CDATA), a
\* reference marker, items without text, atoms that are a bare string, the
\* number 0 (<item>0</item>) or empty (<item></item>), and items of other kinds
TextItemPool ==
    { Atom(sText, tWhat), Atom(sSay, tFour), Atom(sText, <<" ", "4", " ">>), Atom(sSay, <<" ">>),
      Atom(sText, <<"@", "a">>), BareItem(sText), Str(tCats), Num(0), Str(<<>>),
      Atom(sImage, fQJpg), Atom(<<"m","a","r","k","e","r">>, tWhat), Atom(sVoice, tFour) }

TextItemLists == SeqsUpTo(TextItemPool, MaxItems)

\* Questions that differ in the text-bearing items of one slot
TextQuestions ==
    { Obj(("@_price" :> Str(t100)) @@ SlotFields(slot, items) @@ ("right" :> Right(tFour))) :
        slot \in SlotKinds, items \in TextItemLists }

InitText ==
    /\ unit \in {[phase |-> "input", q |-> q] : q \in TextQuestions}
    /\ file = UnitFile
    /\ pc = "unit"
    /\ error = "none"
    /\ xmlObj = Undef
    /\ zipFileMap = BuildIndex(UnitArchive, Len(UnitArchive)).zip
    /\ baseNameMap = BuildIndex(UnitArchive, Len(UnitArchive)).base
    /\ idx = 0
    /\ questions = <<>>
    /\ fileStorage = <<>>
    /\ roundTypes = <<>>
    /\ ri = 0 /\ ti = 0 /\ qi = 0
    /\ probe = NoProbe
    /\ IdleOther

SpecText == InitText /\ [][NextQuestion]_vars

(***************************************************************************)
(* One resolver call at a time: the index build over an archive of media   *)
(* entries, then extractFile on a written form of one entry's name.        *)
(***************************************************************************)
\* One logical name in its written forms, and two plain names
fComposed == <<"e_acute"," ","b",".","j","p","g">>
fDecomposed == <<"e","comb_acute"," ","b",".","j","p","g">>
fPlus == <<"e_acute","+","b",".","j","p","g">>
fEscaped == <<"%","C","3","%","A","9","%","2","0","b",".","j","p","g">>
fAtA == <<"@","a",".","j","p","g">>
fAtPhoto == <<"@","p","h","o","t","o",".","j","p","g">>

pMedia == <<"M","e","d","i","a","/">>

Stored(prefix, name) == [prefix |-> prefix, name |-> name]

\* The media entries an archive may hold: the folder and the name
MediaPool ==
    { Stored(KindImages \o <<"/">>, fComposed),
      Stored(KindImages \o <<"/">>, fDecomposed),
      Stored(KindImages \o <<"/">>, fPlus),
      Stored(KindAudio \o <<"/">>, fEscaped),
      Stored(<<>>, fComposed),
      Stored(pMedia, fPlus),
      Stored(KindTexts \o <<"/">>, fAtA),
      Stored(KindVideo \o <<"/">>, fAtPhoto),
      Stored(KindImages \o <<"/">>, fQJpg) }

DistinctSeqs(S, n) == {s \in SeqsUpTo(S, n) : \A i, j \in 1..Len(s) : i # j => s[i] # s[j]}

MediaLists == DistinctSeqs(MediaPool, MaxEntries) \ {<<>>}

StoredPath(m) == m.prefix \o m.name

ArchiveOf(list) == <<Entry(pContentXml, FALSE, FALSE)>> \o [i \in 1..Len(list) |-> Entry(StoredPath(list[i]), FALSE, FALSE)]

\* The written forms of a name a reference may take
VariantKinds == {"raw", "marked", "decoded", "encoded", "nfc", "nfd", "plus", "space"}

DecodedOr(dec, name) == IF dec.ok THEN dec.s ELSE name

VariantOf(name, kind) ==
    CASE kind = "raw" -> name
      [] kind = "marked" -> <<"@">> \o name
      [] kind = "decoded" -> DecodedOr(DecodeURIComponent(name), name)
      [] kind = "encoded" -> EncodeURIComponent(name)
      [] kind = "nfc" -> NFC(name)
      [] kind = "nfd" -> NFD(name)
      [] kind = "plus" -> ReplaceAll(name, <<" ">>, <<"+">>)
      [] OTHER -> ReplaceAll(name, <<"+">>, <<" ">>)

MediaKinds == {KindImages, KindAudio}

InitResolve ==
    /\ \E list \in MediaLists : \E i \in 1..Len(list) : \E v \in VariantKinds : \E type \in MediaKinds :
          /\ file = [openable |-> TRUE, entries |-> ArchiveOf(list), xmlKind |-> "doc", tree |-> PackageNode(<<>>)]
          /\ probe = [phase |-> "input", stored |-> list[i], variant |-> v, filename |-> VariantOf(list[i].name, v), type |-> type]
    /\ pc = "index"
    /\ error = "none"
    /\ xmlObj = PackageNode(<<>>)
    /\ zipFileMap = <<>>
    /\ baseNameMap = <<>>
    /\ idx = 1
    /\ questions = <<>>
    /\ fileStorage = <<>>
    /\ roundTypes = <<>>
    /\ ri = 0 /\ ti = 0 /\ qi = 0
    /\ unit = NoUnit
    /\ IdleOther

\* extractFile(filename, type), called once the index is built
ExtractFileCall ==
    /\ pc = "index"
    /\ idx > Len(file.entries)
    /\ probe.phase = "input"
    /\ \E r \in {extractFile(file.entries, [zip |-> zipFileMap, base |-> baseNameMap], probe.filename, probe.type)} :
          probe' = [phase |-> "resolved", stored |-> probe.stored, variant |-> probe.variant, filename |-> probe.filename,
                    type |-> probe.type, threw |-> r.threw, file |-> r.file, via |-> r.via]
    /\ UNCHANGED <<file, pc, error, xmlObj, zipFileMap, baseNameMap, idx, questions, fileStorage, roundTypes, ri, ti, qi, unit, otherVars>>

NextResolve ==
    \/ IndexNext
    \/ ExtractFileCall

SpecResolve == InitResolve /\ [][NextResolve]_vars

(***************************************************************************)
\* extractFile called with a reference that is an entry's own path in the
\* archive, letter for letter
InitPath ==
    /\ \E list \in MediaLists : \E i \in 1..Len(list) : \E type \in MediaKinds :
          /\ file = [openable |-> TRUE, entries |-> ArchiveOf(list), xmlKind |-> "doc", tree |-> PackageNode(<<>>)]
          /\ probe = [phase |-> "input", stored |-> list[i], variant |-> "path", filename |-> StoredPath(list[i]), type |-> type]
    /\ pc = "index"
    /\ error = "none"
    /\ xmlObj = PackageNode(<<>>)
    /\ zipFileMap = <<>>
    /\ baseNameMap = <<>>
    /\ idx = 1
    /\ questions = <<>>
    /\ fileStorage = <<>>
    /\ roundTypes = <<>>
    /\ ri = 0 /\ ti = 0 /\ qi = 0
    /\ unit = NoUnit
    /\ IdleOther

SpecPath == InitPath /\ [][NextResolve]_vars

(* Two parseSiq calls in flight on one SiqService instance.  The instance   *)
(* holds the XML parser only; everything else a call uses is declared with  *)
(* const or let inside parseSiq.  A call moves from one await to the next,  *)
(* and the other call may run in between.                                   *)
(***************************************************************************)
Callers == {1, 2}

\* Fault injection: the bindings of parseSiq kept in one place for all calls
InstanceFrame(c) == 1

\* const xmlObj, questions, fileStorage, roundTypes, zipFileMap, baseNameMap,
\* packageRounds: bindings created anew by every invocation
NewFrame(c) == c

EmptyFrame ==
    [xmlObj |-> Undef, zipFileMap |-> <<>>, baseNameMap |-> <<>>, questions |-> <<>>,
     fileStorage |-> <<>>, roundTypes |-> <<>>, packageRounds |-> <<>>]

\* The files given to the two calls
ConcurrentFiles ==
    { [openable |-> TRUE, xmlKind |-> "doc", tree |-> PackageNode(<<RoundA>>),
       entries |-> <<Entry(pContentXml, FALSE, FALSE), Entry(KindImages \o <<"/">>, TRUE, FALSE), Entry(pImagesQJpg, FALSE, FALSE)>>],
      [openable |-> TRUE, xmlKind |-> "doc", tree |-> PackageNode(<<RoundB>>),
       entries |-> <<Entry(pImagesQJpg, FALSE, TRUE), Entry(pAudioAMp3, FALSE, FALSE), Entry(pContentXml, FALSE, FALSE)>>],
      [openable |-> TRUE, xmlKind |-> "malformed", tree |-> PackageNode(<<>>),
       entries |-> <<Entry(pContentXml, FALSE, FALSE)>>],
      [openable |-> TRUE, xmlKind |-> "doc", tree |-> PackageNode(<<>>),
       entries |-> <<Entry(pImagesQJpg, FALSE, FALSE)>>],
      [openable |-> FALSE, xmlKind |-> "doc", tree |-> PackageNode(<<>>),
       entries |-> <<Entry(pContentXml, FALSE, FALSE)>>] }

NewCall(c, f) == [file |-> f, frame |-> NewFrame(c), pc |-> "start", error |-> "none", ri |-> 0, ti |-> 0, qi |-> 0, draws |-> <<>>]

InitConcurrent ==
    /\ calls \in {[c \in Callers |-> NewCall(c, fs[c])] : fs \in [Callers -> ConcurrentFiles]}
    /\ frames = [c \in Callers |-> EmptyFrame]
    /\ file = UnitFile
    /\ pc = "concurrent"
    /\ error = "none"
    /\ xmlObj = Undef
    /\ zipFileMap = <<>>
    /\ baseNameMap = <<>>
    /\ idx = 0
    /\ questions = <<>>
    /\ fileStorage = <<>>
    /\ roundTypes = <<>>
    /\ ri = 0 /\ ti = 0 /\ qi = 0
    /\ probe = NoProbe
    /\ unit = NoUnit
    /\ IdleApp

parseVars == <<file, pc, error, xmlObj, zipFileMap, baseNameMap, idx, questions, fileStorage, roundTypes, ri, ti, qi, probe, unit, appVars>>

\* The bindings the call reads and writes
FrameOf(c) == frames[calls[c].frame]

CallFails(c, what) == calls' = [calls EXCEPT ![c].pc = "failed", ![c].error = what]

CallGoes(c, where) == calls' = [calls EXCEPT ![c].pc = where]

\* const contents = await zip.loadAsync(file)
CallLoadAsync(c) ==
    /\ calls[c].pc = "start"
    /\ IF calls[c].file.openable THEN CallGoes(c, "opened") ELSE CallFails(c, "zip")
    /\ UNCHANGED <<frames, parseVars>>

\* const contentXml = await contents.file('content.xml')?.async('string')
CallReadContentXml(c) ==
    /\ calls[c].pc = "opened"
    /\ IF ~ZipFile(calls[c].file.entries, pContentXml) THEN CallFails(c, "content.xml not found")
       ELSE IF EntryAt(calls[c].file.entries, pContentXml).corrupt THEN CallFails(c, "read")
       ELSE IF calls[c].file.xmlKind = "empty" THEN CallFails(c, "content.xml not found")
       ELSE CallGoes(c, "read")
    /\ UNCHANGED <<frames, parseVars>>

\* The bindings after this.parser.parse, the declarations and the index build
ParsedFrame(f, x) ==
    [xmlObj |-> x, zipFileMap |-> BuildIndex(f.entries, Len(f.entries)).zip,
     baseNameMap |-> BuildIndex(f.entries, Len(f.entries)).base,
     questions |-> <<>>, fileStorage |-> <<>>, roundTypes |-> <<>>,
     packageRounds |-> asArray(Get(Get(Get(x, "package"), "rounds"), "round"))]

\* From this.parser.parse(contentXml) to the first await of the loop over the
\* rounds: one synchronous stretch
CallParseAndIndex(c) ==
    /\ calls[c].pc = "read"
    /\ \/ /\ calls[c].file.xmlKind = "doc"
          /\ frames' = [frames EXCEPT ![calls[c].frame] = ParsedFrame(calls[c].file, calls[c].file.tree)]
          /\ calls' = [calls EXCEPT ![c].pc = "rounds", ![c].ri = 1]
       \/ /\ calls[c].file.xmlKind = "malformed"
          /\ frames' = [frames EXCEPT ![calls[c].frame] = ParsedFrame(calls[c].file, Obj(<<>>))]
          /\ calls' = [calls EXCEPT ![c].pc = "rounds", ![c].ri = 1]
       \/ /\ calls[c].file.xmlKind = "malformed"
          /\ CallFails(c, "xml")
          /\ UNCHANGED frames
    /\ UNCHANGED parseVars

CallRound(c) == FrameOf(c).packageRounds[calls[c].ri]

CallTheme(c) == ThemesOf(CallRound(c))[calls[c].ti]

\* processRound, up to the loop over the themes
CallBeginRound(c) ==
    /\ calls[c].pc = "rounds"
    /\ calls[c].ri <= Len(FrameOf(c).packageRounds)
    /\ calls[c].ti = 0
    /\ frames' = [frames EXCEPT ![calls[c].frame].roundTypes = SetRoundType(@, CallRound(c))]
    /\ calls' = [calls EXCEPT ![c].ti = 1, ![c].qi = 1]
    /\ UNCHANGED parseVars

\* The body of the loop over a theme's questions, with its awaits
CallQuestion(c) ==
    /\ calls[c].pc = "rounds"
    /\ calls[c].ri <= Len(FrameOf(c).packageRounds)
    /\ calls[c].ti >= 1 /\ calls[c].ti <= Len(ThemesOf(CallRound(c)))
    /\ calls[c].qi <= Len(QuestionsOf(CallTheme(c)))
    /\ \E rnd \in RandomSuffixes :
       \E r \in {ProcessQuestion(QuestionsOf(CallTheme(c))[calls[c].qi], Get(CallRound(c), "@_name"), Get(CallTheme(c), "@_name"),
                                 calls[c].file.entries, [zip |-> FrameOf(c).zipFileMap, base |-> FrameOf(c).baseNameMap],
                                 rnd, <<calls[c].ri, calls[c].ti, calls[c].qi>>)} :
          IF r.threw
          THEN CallFails(c, "extract") /\ UNCHANGED frames
          ELSE /\ frames' = [frames EXCEPT ![calls[c].frame].questions = PushQuestion(@, r.question),
                                           ![calls[c].frame].fileStorage = StoreFiles(@, r.question.id, r.storage)]
               /\ calls' = [calls EXCEPT ![c].qi = @ + 1, ![c].draws = Append(@, rnd)]
    /\ UNCHANGED parseVars

CallNextTheme(c) ==
    /\ calls[c].pc = "rounds"
    /\ calls[c].ri <= Len(FrameOf(c).packageRounds)
    /\ calls[c].ti >= 1 /\ calls[c].ti <= Len(ThemesOf(CallRound(c)))
    /\ calls[c].qi > Len(QuestionsOf(CallTheme(c)))
    /\ calls' = [calls EXCEPT ![c].ti = @ + 1, ![c].qi = 1]
    /\ UNCHANGED <<frames, parseVars>>

CallEndRound(c) ==
    /\ calls[c].pc = "rounds"
    /\ calls[c].ri <= Len(FrameOf(c).packageRounds)
    /\ calls[c].ti > Len(ThemesOf(CallRound(c)))
    /\ calls' = [calls EXCEPT ![c].ri = @ + 1, ![c].ti = 0, ![c].qi = 0]
    /\ UNCHANGED <<frames, parseVars>>

\* return { questions, fileStorage, roundTypes }
CallReturn(c) ==
    /\ calls[c].pc = "rounds"
    /\ calls[c].ri > Len(FrameOf(c).packageRounds)
    /\ calls' = [calls EXCEPT ![c] = [file |-> @.file, frame |-> @.frame, pc |-> "done", error |-> @.error,
                                      ri |-> @.ri, ti |-> @.ti, qi |-> @.qi, draws |-> @.draws,
                                      result |-> [questions |-> FrameOf(c).questions, fileStorage |-> FrameOf(c).fileStorage,
                                                  roundTypes |-> FrameOf(c).roundTypes]]]
    /\ UNCHANGED <<frames, parseVars>>

NextConcurrent ==
    \/ \E c \in Callers : CallLoadAsync(c)
    \/ \E c \in Callers : CallReadContentXml(c)
    \/ \E c \in Callers : CallParseAndIndex(c)
    \/ \E c \in Callers : CallBeginRound(c)
    \/ \E c \in Callers : CallQuestion(c)
    \/ \E c \in Callers : CallNextTheme(c)
    \/ \E c \in Callers : CallEndRound(c)
    \/ \E c \in Callers : CallReturn(c)

SpecConcurrent == InitConcurrent /\ [][NextConcurrent]_vars

(***************************************************************************)
(* The game: GameStateManager, the admin window's handlers, the            *)
(* BroadcastChannel and the TV window's message handler.  Player names     *)
(* are written in Latin letters: "Igrok n" is the default name the source  *)
(* builds from the player number, "Bez imeni" the name given to a player   *)
(* whose name was emptied.                                                 *)
(***************************************************************************)
MaxPlayers == 2

MaxClicks == 3

MaxInFlight == 2

Null == "null"

\* window.currentGameState and window.roundData before any message
Undefined == [undefined |-> TRUE]

Hidden == [music |-> FALSE, text |-> FALSE, question |-> FALSE, answer |-> FALSE]

\* GameStateManager.createInitialState
createInitialState ==
    [rounds |-> <<>>, players |-> <<>>, mode |-> "GRID", currentQuestionId |-> Null, visible |-> Hidden,
     currentRoundName |-> "round1", roundNames |-> <<>>, specialMode |-> Null]

DefaultNames == <<"Igrok 1", "Igrok 2", "Igrok 3", "Igrok 4">>

\* The names typed into a player's name field
TypedNames == {"Ann", "igrok 2", ""}

\* String.prototype.toLowerCase on the names in use
NameLower(name) ==
    IF \E n \in 1..Len(DefaultNames) : DefaultNames[n] = name
    THEN <<"igrok 1", "igrok 2", "igrok 3", "igrok 4">>[CHOOSE n \in 1..Len(DefaultNames) : DefaultNames[n] = name]
    ELSE IF name = "Ann" THEN "ann" ELSE name

\* while (existingNames.includes(`igrok ${playerNumber}`)) playerNumber++
PlayerNumber(players) ==
    CHOOSE n \in 1..Len(DefaultNames) :
        /\ ~\E i \in 1..Len(players) : NameLower(players[i].name) = NameLower(DefaultNames[n])
        /\ \A m \in 1..(n - 1) : \E i \in 1..Len(players) : NameLower(players[i].name) = NameLower(DefaultNames[m])

\* GameStateManager.addPlayer; the id is Date.now() + Math.random(), a number
\* no earlier player has
addPlayer(s, name, id) ==
    [s EXCEPT !.players = Append(@, [id |-> id, name |-> IF name = "" THEN DefaultNames[PlayerNumber(s.players)] ELSE name, score |-> 0])]

\* players.findIndex(p => p.id === id), 0 when there is none
PlayerIndex(players, id) ==
    IF \E i \in 1..Len(players) : players[i].id = id
    THEN CHOOSE i \in 1..Len(players) : players[i].id = id /\ \A j \in 1..(i - 1) : players[j].id # id
    ELSE 0

\* GameStateManager.removePlayer: the state after it, and what it returns
CanRemove(s, id) == Len(s.players) > 1 /\ PlayerIndex(s.players, id) # 0

removePlayer(s, id) ==
    IF CanRemove(s, id)
    THEN [s EXCEPT !.players = SubSeq(@, 1, PlayerIndex(@, id) - 1) \o SubSeq(@, PlayerIndex(@, id) + 1, Len(@))]
    ELSE s

\* GameStateManager.updatePlayerName
updatePlayerName(s, id, name) ==
    IF PlayerIndex(s.players, id) = 0 THEN s
    ELSE [s EXCEPT !.players[PlayerIndex(s.players, id)].name = IF name = "" THEN "Bez imeni" ELSE name]

\* GameStateManager.updatePlayerScore
updatePlayerScore(s, id, score) ==
    IF PlayerIndex(s.players, id) = 0 THEN s ELSE [s EXCEPT !.players[PlayerIndex(s.players, id)].score = score]

\* Fault injection: the message carries the state the handler started from
StaleStateMessage(s) == [type |-> "STATE", state |-> state]

\* syncService.syncState(stateManager.getState()): the message posted
StateMessage(s) == [type |-> "STATE", state |-> s]

\* BroadcastChannel.postMessage from the admin window: the TV window's
\* channel object of the same name gets the messages, in order
PostToTV(msgs) ==
    /\ toTV' = toTV \o msgs
    /\ admin' = [admin EXCEPT !.posted = @ + Len(msgs), !.clicks = @ + 1]

\* The host acts only so often, and the model holds only so many messages
MayClick(n) == admin.clicks < MaxClicks /\ Len(toTV) + n <= MaxInFlight

\* add-player-btn click
AddPlayerClick ==
    /\ MayClick(1)
    /\ Len(state.players) < MaxPlayers
    /\ state' = addPlayer(state, "", admin.clock)
    /\ toTV' = Append(toTV, StateMessage(state'))
    /\ admin' = [admin EXCEPT !.posted = @ + 1, !.clicks = @ + 1, !.clock = @ + 1]
    /\ UNCHANGED <<toAdmin, tv>>

\* adminUIHandlers.onNameChange and the callback given to renderPlayers
OnNameChange ==
    /\ MayClick(1)
    /\ \E i \in 1..Len(state.players) : \E name \in TypedNames :
          state' = updatePlayerName(state, state.players[i].id, name)
    /\ PostToTV(<<StateMessage(state')>>)
    /\ UNCHANGED <<toAdmin, tv>>

TypedScores == {0, 500}

\* adminUIHandlers.onScoreChange
OnScoreChange ==
    /\ MayClick(1)
    /\ \E i \in 1..Len(state.players) : \E score \in TypedScores :
          state' = updatePlayerScore(state, state.players[i].id, score)
    /\ PostToTV(<<StateMessage(state')>>)
    /\ UNCHANGED <<toAdmin, tv>>

\* adminUIHandlers.onRemove: nothing is sent when removePlayer returns false
OnRemove ==
    /\ MayClick(1)
    /\ \E i \in 1..Len(state.players) :
          /\ state' = removePlayer(state, state.players[i].id)
          /\ IF CanRemove(state, state.players[i].id)
             THEN PostToTV(<<StateMessage(state')>>)
             ELSE admin' = [admin EXCEPT !.clicks = @ + 1] /\ UNCHANGED toTV
    /\ UNCHANGED <<toAdmin, tv>>

\* setTimeout(() => syncService.requestSync(), 500) of initTVScreen
TVRequestSync ==
    /\ ~tv.requested
    /\ tv' = [tv EXCEPT !.requested = TRUE]
    /\ toAdmin' = Append(toAdmin, [type |-> "REQUEST_SYNC"])
    /\ UNCHANGED <<state, admin, toTV>>

\* The admin window's onMessage callback
AdminOnMessage ==
    /\ toAdmin # <<>>
    /\ Len(toTV) < MaxInFlight
    /\ toAdmin' = Tail(toAdmin)
    /\ IF Head(toAdmin).type = "REQUEST_SYNC"
       THEN toTV' = Append(toTV, StateMessage(state)) /\ admin' = [admin EXCEPT !.posted = @ + 1]
       ELSE UNCHANGED <<toTV, admin>>
    /\ UNCHANGED <<state, tv>>

\* [...players].sort((a, b) => (b.score || 0) - (a.score || 0)): a stable sort
RECURSIVE InsertByScore(_, _)
InsertByScore(sorted, p) ==
    IF sorted = <<>> THEN <<p>>
    ELSE IF Head(sorted).score >= p.score THEN <<Head(sorted)>> \o InsertByScore(Tail(sorted), p)
    ELSE <<p>> \o sorted

RECURSIVE SortByScore(_, _)
SortByScore(players, n) == IF n = 0 THEN <<>> ELSE InsertByScore(SortByScore(players, n - 1), players[n])

\* TVScreen.renderScoreboard: the rows of #tv-scoreboard, top to bottom
renderScoreboard(players) == SortByScore(players, Len(players))

\* handleTVMessage
HandleTVMessage ==
    /\ toTV # <<>>
    /\ toTV' = Tail(toTV)
    /\ tv' = IF Head(toTV).type = "STATE"
             THEN [tv EXCEPT !.currentGameState = Head(toTV).state, !.scoreboard = renderScoreboard(Head(toTV).state.players),
                             !.received = @ + 1]
             ELSE IF Head(toTV).type = "LOAD_ROUND_DATA"
             THEN [tv EXCEPT !.roundData = Head(toTV).data, !.received = @ + 1]
             ELSE [tv EXCEPT !.received = @ + 1]
    /\ UNCHANGED <<state, admin, toAdmin>>

siqVars == <<file, pc, error, xmlObj, zipFileMap, baseNameMap, idx, questions, fileStorage, roundTypes, ri, ti, qi, probe, unit, calls, frames>>

IdleSiq ==
    /\ file = UnitFile
    /\ pc = "app"
    /\ error = "none"
    /\ xmlObj = Undef
    /\ zipFileMap = <<>>
    /\ baseNameMap = <<>>
    /\ idx = 0
    /\ questions = <<>>
    /\ fileStorage = <<>>
    /\ roundTypes = <<>>
    /\ ri = 0 /\ ti = 0 /\ qi = 0
    /\ probe = NoProbe
    /\ unit = NoUnit
    /\ calls = <<>>
    /\ frames = <<>>

\* Both windows are open: initAdminScreen has added the first player, and
\* initTVScreen has subscribed and set the timer of its sync request
InitSync ==
    /\ state = addPlayer(createInitialState, "Igrok 1", 1)
    /\ admin = [isFolderLoading |-> FALSE, tasks |-> <<>>, clock |-> 2, clicks |-> 0, posted |-> 0]
    /\ toTV = <<>>
    /\ toAdmin = <<>>
    /\ tv = [currentGameState |-> Undefined, roundData |-> Undefined, scoreboard |-> <<>>, requested |-> FALSE, received |-> 0]
    /\ IdleSiq

NextSync ==
    \/ AddPlayerClick /\ UNCHANGED siqVars
    \/ OnNameChange /\ UNCHANGED siqVars
    \/ OnScoreChange /\ UNCHANGED siqVars
    \/ OnRemove /\ UNCHANGED siqVars
    \/ TVRequestSync /\ UNCHANGED siqVars
    \/ AdminOnMessage /\ UNCHANGED siqVars
    \/ HandleTVMessage /\ UNCHANGED siqVars

\* A message posted on a BroadcastChannel is a task queued on the event loop
\* of the receiving window, and the event loop runs its tasks; so is a timer.
SpecSync ==
    /\ InitSync
    /\ [][NextSync]_vars
    /\ WF_vars(HandleTVMessage /\ UNCHANGED siqVars)
    /\ WF_vars(AdminOnMessage /\ UNCHANGED siqVars)
    /\ WF_vars(TVRequestSync /\ UNCHANGED siqVars)

(***************************************************************************)
(* The admin window's game controls (app.ts) and the TV window.            *)
(***************************************************************************)
MaxActs == 4

\* A question as FileService.processFiles returns it. key is the string
\* `${q.category}_${q.score}_${q.type}_${q.specialType || ''}`, and hasFiles
\* says that fileStorage[q.id] holds media files.
Question(id, round, key, specialType, hasFiles) ==
    [id |-> id, round |-> round, key |-> key, specialType |-> specialType, played |-> FALSE, hasFiles |-> hasFiles]

\* The folders the host loads: the questions of processFiles, in its order
PackA ==
    << Question("a1", "Round 1", "History_100_text_", Null, FALSE),
       Question("a2", "Final", "Music_300_audio_", Null, TRUE),
       Question("a3", "Final", "Music_400_text_cat", "cat", FALSE) >>

PackB ==
    << Question("b1", "Final", "Music_300_audio_", Null, FALSE),
       Question("b2", "Round 1", "History_100_text_", "cat", TRUE) >>

Packs == {PackA, PackB}

\* The round names in use, in the order of their UTF-16 code units, which is
\* the order Array.prototype.sort() without a comparator puts strings in
CodeUnitOrder == <<"Final", "Round 1", "round1">>

InNames(names, name) == \E i \in 1..Len(names) : names[i] = name

KeepIfIn(names, n) == IF InNames(names, CodeUnitOrder[n]) THEN <<CodeUnitOrder[n]>> ELSE <<>>

RECURSIVE SortUpTo(_, _)
SortUpTo(names, n) == IF n = 0 THEN <<>> ELSE SortUpTo(names, n - 1) \o KeepIfIn(names, n)

\* roundNames.sort(), for distinct names
sort(names) == SortUpTo(names, Len(CodeUnitOrder))

\* questions.forEach(q => { if (!rounds[q.round]) { ...; roundNames.push(q.round) } ... }):
\* the names in the order of their first question
RECURSIVE FirstAppearance(_, _)
FirstAppearance(qs, n) ==
    IF n = 0 THEN <<>>
    ELSE IF InNames(FirstAppearance(qs, n - 1), qs[n].round) THEN FirstAppearance(qs, n - 1)
    ELSE Append(FirstAppearance(qs, n - 1), qs[n].round)

RoundOf(qs, name) == SelectSeq(qs, LAMBDA q : q.round = name)

\* The rounds object: its keys in insertion order, each with its questions
RoundsObject(qs) ==
    [i \in 1..Len(FirstAppearance(qs, Len(qs))) |->
        [name |-> FirstAppearance(qs, Len(qs))[i], questions |-> RoundOf(qs, FirstAppearance(qs, Len(qs))[i])]]

RoundIndex(rounds, name) ==
    IF \E i \in 1..Len(rounds) : rounds[i].name = name THEN CHOOSE i \in 1..Len(rounds) : rounds[i].name = name ELSE 0

\* savedRoundsState[roundName][key]: the played flag of the last question of
\* the round with that key, Undefined when there is none
SavedPlayed(saved, name, key) ==
    IF RoundIndex(saved, name) = 0 THEN Undefined
    ELSE IF ~\E j \in 1..Len(saved[RoundIndex(saved, name)].questions) : saved[RoundIndex(saved, name)].questions[j].key = key
    THEN Undefined
    ELSE [played |-> saved[RoundIndex(saved, name)].questions[
              CHOOSE j \in 1..Len(saved[RoundIndex(saved, name)].questions) :
                  /\ saved[RoundIndex(saved, name)].questions[j].key = key
                  /\ \A k \in (j + 1)..Len(saved[RoundIndex(saved, name)].questions) :
                        saved[RoundIndex(saved, name)].questions[k].key # key].played]

RestoreQuestion(q, sp) == IF sp = Undefined THEN q ELSE [q EXCEPT !.played = sp.played]

\* "Restore played status from saved state"
RestorePlayed(rounds, saved) ==
    [i \in 1..Len(rounds) |->
        [rounds[i] EXCEPT !.questions =
            [j \in 1..Len(@) |-> RestoreQuestion(@[j], SavedPlayed(saved, rounds[i].name, @[j].key))]]]

\* GameStateManager.setRounds
setRounds(s, rounds, roundNames) ==
    [s EXCEPT !.rounds = rounds, !.roundNames = roundNames,
              !.currentRoundName = IF Len(roundNames) > 0 /\ ~InNames(roundNames, @) THEN roundNames[1] ELSE @]

\* GameStateManager.setPlayers
setPlayers(s, players) == [s EXCEPT !.players = players]

\* GameStateManager.setCurrentRoundName
setCurrentRoundName(s, roundName) ==
    IF InNames(s.roundNames, roundName) THEN [s EXCEPT !.currentRoundName = roundName] ELSE s

AllQuestions(s) == UNION {{s.rounds[i].questions[j] : j \in 1..Len(s.rounds[i].questions)} : i \in 1..Len(s.rounds)}

\* GameStateManager.findQuestion: is there one (ids are distinct in a pack)
HasQuestion(s, id) == \E q \in AllQuestions(s) : q.id = id

findQuestion(s, id) == CHOOSE q \in AllQuestions(s) : q.id = id

\* GameStateManager.getCurrentRoundQuestions
getCurrentRoundQuestions(s) ==
    IF RoundIndex(s.rounds, s.currentRoundName) = 0 THEN <<>> ELSE s.rounds[RoundIndex(s.rounds, s.currentRoundName)].questions

\* GameStateManager.markQuestionPlayed(questionId, true)
markQuestionPlayed(s, id) ==
    [s EXCEPT !.rounds =
        [i \in 1..Len(@) |->
            [@[i] EXCEPT !.questions = [j \in 1..Len(@) |-> IF @[j].id = id THEN [@[j] EXCEPT !.played = TRUE] ELSE @[j]]]]]

\* GameStateManager.setCurrentQuestion
setCurrentQuestion(s, id) ==
    [s EXCEPT !.currentQuestionId = id,
              !.currentRoundName = IF id # Null /\ HasQuestion(s, id) THEN findQuestion(s, id).round ELSE @]

\* Fault injection: the reset leaves the answer flag as it was
KeepAnswer(visible) == [Hidden EXCEPT !.answer = visible.answer]

\* setVisibility({ music: false, text: false, question: false, answer: false })
ResetVisibility(visible) == Hidden

\* The host acts only so often, and the model holds only so many messages
MayAct(n) == admin.clicks < MaxActs /\ Len(toTV) + n <= MaxInFlight

TaskAt(i, kind) == i \in 1..Len(admin.tasks) /\ admin.tasks[i].kind = kind

WithoutTask(i) == SubSeq(admin.tasks, 1, i - 1) \o SubSeq(admin.tasks, i + 1, Len(admin.tasks))

\* Fault injection: a change event is processed whether or not a load is
\* running
FolderInputChangeUnguarded ==
    /\ MayAct(0)
    /\ \E pack \in Packs :
          admin' = [admin EXCEPT !.clicks = @ + 1, !.isFolderLoading = TRUE, !.loadStatus = "files_loading",
                                 !.tasks = Append(@, [kind |-> "folder", questions |-> pack, savedPlayers |-> state.players,
                                                      savedRoundsState |-> state.rounds, savedRoundName |-> state.currentRoundName])]
    /\ UNCHANGED <<state, toTV, toAdmin, tv>>

\* handleFolderLoad up to its await: a second load while one is running is
\* dropped; otherwise the players, the played flags and the current round
\* are saved and processFiles is started
FolderInputChange ==
    /\ MayAct(0)
    /\ \E pack \in Packs :
          admin' = IF admin.isFolderLoading THEN [admin EXCEPT !.clicks = @ + 1]
                   ELSE [admin EXCEPT !.clicks = @ + 1, !.isFolderLoading = TRUE, !.loadStatus = "files_loading",
                                      !.tasks = Append(@, [kind |-> "folder", questions |-> pack, savedPlayers |-> state.players,
                                                           savedRoundsState |-> state.rounds, savedRoundName |-> state.currentRoundName])]
    /\ UNCHANGED <<state, toTV, toAdmin, tv>>

\* The state handleFolderLoad leaves, from `fileStorage = storage` on
FolderLoaded(s, t) ==
    setCurrentRoundName(
        setPlayers(setRounds(s, RestorePlayed(RoundsObject(t.questions), t.savedRoundsState),
                             sort(FirstAppearance(t.questions, Len(t.questions)))),
                   IF Len(t.savedPlayers) > 0 THEN t.savedPlayers ELSE s.players),
        t.savedRoundName)

\* handleFolderLoad after its await
HandleFolderLoad ==
    /\ Len(toTV) < MaxInFlight
    /\ \E i \in 1..Len(admin.tasks) :
          /\ TaskAt(i, "folder")
          /\ state' = FolderLoaded(state, admin.tasks[i])
          /\ toTV' = Append(toTV, StateMessage(state'))
          /\ admin' = [admin EXCEPT !.isFolderLoading = FALSE, !.loadStatus = "files_loaded", !.tasks = WithoutTask(i), !.posted = @ + 1]
    /\ UNCHANGED <<toAdmin, tv>>

\* handleFolderLoad when processFiles rejects: the catch block writes the
\* status line, and the finally block resets the flag
HandleFolderLoadFailed ==
    /\ \E i \in 1..Len(admin.tasks) :
          /\ TaskAt(i, "folder")
          /\ admin' = [admin EXCEPT !.isFolderLoading = FALSE, !.loadStatus = "file_not_selected", !.tasks = WithoutTask(i)]
    /\ UNCHANGED <<state, toTV, toAdmin, tv>>

RoundDataMessage(id) == [type |-> "LOAD_ROUND_DATA", data |-> [questionId |-> id]]

\* selectQuestion up to its branch on question.specialType
Selected(s, id) ==
    markQuestionPlayed([setCurrentQuestion([s EXCEPT !.visible = ResetVisibility(@)], id) EXCEPT !.mode = "ROUND"], id)

\* selectQuestion(id), called from a cell of the grid, which shows the
\* questions of the current round while the grid view is displayed. A
\* special question gets its preview and a timer for the listener of the
\* open button; another one is sent at once when it has no media files to
\* read, and after the reads otherwise.
SelectQuestion ==
    /\ MayAct(2)
    /\ state.mode = "GRID"
    /\ \E n \in 1..Len(getCurrentRoundQuestions(state)) : \E q \in {getCurrentRoundQuestions(state)[n]} :
          IF q.specialType # Null
          THEN /\ state' = [Selected(state, q.id) EXCEPT !.specialMode = q.specialType]
               /\ toTV' = toTV \o <<[type |-> "SPECIAL_PREVIEW"], StateMessage(state')>>
               /\ admin' = [admin EXCEPT !.clicks = @ + 1, !.posted = @ + 2, !.button = TRUE, !.listeners = <<>>,
                                         !.tasks = Append(@, [kind |-> "register", id |-> q.id])]
          ELSE /\ state' = [Selected(state, q.id) EXCEPT !.specialMode = Null]
               /\ IF q.hasFiles
                  THEN /\ toTV' = toTV
                       /\ admin' = [admin EXCEPT !.clicks = @ + 1, !.button = FALSE, !.listeners = <<>>,
                                                 !.tasks = Append(@, [kind |-> "select", id |-> q.id])]
                  ELSE /\ toTV' = toTV \o <<RoundDataMessage(q.id), StateMessage(state')>>
                       /\ admin' = [admin EXCEPT !.clicks = @ + 1, !.posted = @ + 2, !.button = FALSE, !.listeners = <<>>]
    /\ UNCHANGED <<toAdmin, tv>>

\* selectQuestion after its awaits
SelectQuestionSend ==
    /\ Len(toTV) + 2 <= MaxInFlight
    /\ \E i \in 1..Len(admin.tasks) :
          /\ TaskAt(i, "select")
          /\ toTV' = toTV \o <<RoundDataMessage(admin.tasks[i].id), StateMessage(state)>>
          /\ admin' = [admin EXCEPT !.tasks = WithoutTask(i), !.posted = @ + 2]
    /\ UNCHANGED <<state, toAdmin, tv>>

\* The timer of selectQuestion: the listener goes onto the open button that
\* is in the document now
RegisterOpenButton ==
    /\ \E i \in 1..Len(admin.tasks) :
          /\ TaskAt(i, "register")
          /\ admin' = [admin EXCEPT !.tasks = WithoutTask(i),
                                    !.listeners = IF admin.button THEN Append(@, admin.tasks[i].id) ELSE @]
    /\ UNCHANGED <<state, toTV, toAdmin, tv>>

\* openSpecialQuestion up to its awaits
openSpecialQuestion(s, id) ==
    IF HasQuestion(s, id) THEN markQuestionPlayed([s EXCEPT !.specialMode = Null, !.visible = ResetVisibility(@)], id) ELSE s

\* The listeners of the button run one after the other
RECURSIVE OpenState(_, _, _)
OpenState(s, ids, n) == IF n = 0 THEN s ELSE openSpecialQuestion(OpenState(s, ids, n - 1), ids[n])

\* What each call posts before it returns: the round data when there is no
\* media file to read
RECURSIVE OpenMessages(_, _, _)
OpenMessages(s, ids, n) ==
    IF n = 0 THEN <<>>
    ELSE OpenMessages(s, ids, n - 1)
         \o (IF HasQuestion(s, ids[n]) /\ ~findQuestion(s, ids[n]).hasFiles THEN <<RoundDataMessage(ids[n])>> ELSE <<>>)

\* What each call leaves to be done: its reads, or its timer
RECURSIVE OpenTasks(_, _, _)
OpenTasks(s, ids, n) ==
    IF n = 0 THEN <<>>
    ELSE OpenTasks(s, ids, n - 1)
         \o (IF ~HasQuestion(s, ids[n]) THEN <<>>
             ELSE IF findQuestion(s, ids[n]).hasFiles THEN <<[kind |-> "open", id |-> ids[n]]>>
             ELSE <<[kind |-> "open-sync", id |-> ids[n]]>>)

\* A click on open-special-question-btn, displayed with the round controls
OpenSpecialClick ==
    /\ state.mode = "ROUND"
    /\ admin.button
    /\ admin.listeners # <<>>
    /\ MayAct(Len(OpenMessages(state, admin.listeners, Len(admin.listeners))))
    /\ state' = OpenState(state, admin.listeners, Len(admin.listeners))
    /\ toTV' = toTV \o OpenMessages(state, admin.listeners, Len(admin.listeners))
    /\ admin' = [admin EXCEPT !.clicks = @ + 1, !.button = FALSE, !.listeners = <<>>,
                              !.posted = @ + Len(OpenMessages(state, admin.listeners, Len(admin.listeners))),
                              !.tasks = @ \o OpenTasks(state, admin.listeners, Len(admin.listeners))]
    /\ UNCHANGED <<toAdmin, tv>>

\* openSpecialQuestion after its awaits: the round data, and the timer
OpenSpecialSend ==
    /\ Len(toTV) < MaxInFlight
    /\ \E i \in 1..Len(admin.tasks) :
          /\ TaskAt(i, "open")
          /\ toTV' = Append(toTV, RoundDataMessage(admin.tasks[i].id))
          /\ admin' = [admin EXCEPT !.tasks = Append(WithoutTask(i), [kind |-> "open-sync", id |-> admin.tasks[i].id]), !.posted = @ + 1]
    /\ UNCHANGED <<state, toAdmin, tv>>

\* The timer of openSpecialQuestion
OpenSpecialSync ==
    /\ Len(toTV) < MaxInFlight
    /\ \E i \in 1..Len(admin.tasks) :
          /\ TaskAt(i, "open-sync")
          /\ toTV' = Append(toTV, StateMessage(state))
          /\ admin' = [admin EXCEPT !.tasks = WithoutTask(i), !.posted = @ + 1]
    /\ UNCHANGED <<state, toAdmin, tv>>

\* show-question-btn click; the button is among the round controls
ShowQuestionClick ==
    /\ MayAct(2)
    /\ state.mode = "ROUND"
    /\ IF state.currentQuestionId # Null /\ HasQuestion(state, state.currentQuestionId) /\ ~state.visible.question
       THEN /\ state' = [state EXCEPT !.visible.question = TRUE]
            /\ toTV' = toTV \o <<[type |-> "ANIMATE"], StateMessage(state')>>
            /\ admin' = [admin EXCEPT !.clicks = @ + 1, !.posted = @ + 2]
       ELSE /\ admin' = [admin EXCEPT !.clicks = @ + 1]
            /\ UNCHANGED <<state, toTV>>
    /\ UNCHANGED <<toAdmin, tv>>

\* show-answer-btn click; the button is among the round controls
ShowAnswerClick ==
    /\ MayAct(2)
    /\ state.mode = "ROUND"
    /\ IF ~state.visible.answer
       THEN /\ state' = [state EXCEPT !.visible.answer = TRUE]
            /\ toTV' = toTV \o <<[type |-> "ANIMATE"], StateMessage(state')>>
            /\ admin' = [admin EXCEPT !.clicks = @ + 1, !.posted = @ + 2]
       ELSE /\ admin' = [admin EXCEPT !.clicks = @ + 1]
            /\ UNCHANGED <<state, toTV>>
    /\ UNCHANGED <<toAdmin, tv>>

\* back-to-grid-btn click; the button is among the round controls
BackToGridClick ==
    /\ MayAct(1)
    /\ state.mode = "ROUND"
    /\ state' = [setCurrentQuestion(state, Null) EXCEPT !.mode = "GRID", !.visible = Hidden]
    /\ toTV' = Append(toTV, StateMessage(state'))
    /\ admin' = [admin EXCEPT !.clicks = @ + 1, !.posted = @ + 1]
    /\ UNCHANGED <<toAdmin, tv>>

\* The callback given to renderRoundSelector: animateRoundSwitch fades the
\* grid out and sets a timer for the switch
OnRoundSelect ==
    /\ MayAct(0)
    /\ \E n \in 1..Len(state.roundNames) :
          admin' = [admin EXCEPT !.clicks = @ + 1, !.tasks = Append(@, [kind |-> "round", name |-> state.roundNames[n]])]
    /\ UNCHANGED <<state, toTV, toAdmin, tv>>

\* The timer of animateRoundSwitch
RoundSwitch ==
    /\ Len(toTV) < MaxInFlight
    /\ \E i \in 1..Len(admin.tasks) :
          /\ TaskAt(i, "round")
          /\ state' = [setCurrentRoundName(state, admin.tasks[i].name) EXCEPT !.mode = "GRID"]
          /\ toTV' = Append(toTV, StateMessage(state'))
          /\ admin' = [admin EXCEPT !.tasks = WithoutTask(i), !.posted = @ + 1]
    /\ UNCHANGED <<toAdmin, tv>>

\* Both windows are open and no folder has been loaded
InitApp ==
    /\ state = addPlayer(createInitialState, "Igrok 1", 1)
    /\ admin = [isFolderLoading |-> FALSE, loadStatus |-> "file_not_selected", tasks |-> <<>>, clock |-> 2, clicks |-> 0, posted |-> 0,
                button |-> FALSE, listeners |-> <<>>]
    /\ toTV = <<>>
    /\ toAdmin = <<>>
    /\ tv = [currentGameState |-> Undefined, roundData |-> Undefined, scoreboard |-> <<>>, requested |-> FALSE, received |-> 0]
    /\ IdleSiq

NextApp ==
    \/ FolderInputChange /\ UNCHANGED siqVars
    \/ HandleFolderLoad /\ UNCHANGED siqVars
    \/ HandleFolderLoadFailed /\ UNCHANGED siqVars
    \/ SelectQuestion /\ UNCHANGED siqVars
    \/ SelectQuestionSend /\ UNCHANGED siqVars
    \/ RegisterOpenButton /\ UNCHANGED siqVars
    \/ OpenSpecialClick /\ UNCHANGED siqVars
    \/ OpenSpecialSend /\ UNCHANGED siqVars
    \/ OpenSpecialSync /\ UNCHANGED siqVars
    \/ ShowQuestionClick /\ UNCHANGED siqVars
    \/ ShowAnswerClick /\ UNCHANGED siqVars
    \/ BackToGridClick /\ UNCHANGED siqVars
    \/ OnRoundSelect /\ UNCHANGED siqVars
    \/ RoundSwitch /\ UNCHANGED siqVars
    \/ TVRequestSync /\ UNCHANGED siqVars
    \/ AdminOnMessage /\ UNCHANGED siqVars
    \/ HandleTVMessage /\ UNCHANGED siqVars

SpecApp == InitApp /\ [][NextApp]_vars

(***************************************************************************)
(* Properties of parseSiq.                                                 *)
(***************************************************************************)
\* The archive holds no file stored under exactly the name content.xml
RootMissing == \A i \in 1..Len(file.entries) : file.entries[i].path # pContentXml \/ file.entries[i].dir

\* The root document cannot be read, is empty or is no XML
RootUnusable ==
    \/ file.xmlKind \in {"empty", "malformed"}
    \/ \E i \in 1..Len(file.entries) : file.entries[i].path = pContentXml /\ file.entries[i].corrupt

\* C1: parseSiq raises only when the archive cannot be opened or the root
\* document content.xml is missing, unreadable, empty or unparsable; for every
\* other irregular input it returns a result.
C1_RaisesOnlyForRootDocument == pc = "failed" => (~file.openable \/ RootMissing \/ RootUnusable)

\* C1 witness: a parse that returned although the archive holds a damaged media
\* entry and the package holds rounds, themes and questions without names,
\* prices or content, with malformed type and params nodes.
C1_Witness ==
    /\ pc = "done"
    /\ \E i \in 1..Len(file.entries) : file.entries[i].corrupt
    /\ \E j \in 1..Len(questions) : questions[j].score = 0 /\ questions[j].category = Str(nCyr)
    /\ \E j \in 1..Len(questions) : questions[j].round = Undef \/ questions[j].category = Undef

\* C2 (as claimed): an openable archive whose root document is stored as
\* content.xml in any letter case, readable and holding a document, is never
\* rejected as lacking content.xml.
C2_RootFoundInAnyCase ==
    ( /\ file.openable
      /\ file.xmlKind = "doc"
      /\ \E i \in 1..Len(file.entries) :
            ToLowerCase(file.entries[i].path) = pContentXml /\ ~file.entries[i].dir /\ ~file.entries[i].corrupt )
    => error # "content.xml not found"

\* Lexicographic order of source positions <<round, theme, question>>
PosLess(a, b) ==
    \/ a[1] < b[1]
    \/ a[1] = b[1] /\ a[2] < b[2]
    \/ a[1] = b[1] /\ a[2] = b[2] /\ a[3] < b[3]

SourceRounds == asArray(Get(Get(Get(file.tree, "package"), "rounds"), "round"))

SourceRound(pos) == SourceRounds[pos[1]]

SourceTheme(pos) == asArray(Get(Get(SourceRound(pos), "themes"), "theme"))[pos[2]]

\* C3: the questions list is in source document order: a precedes b in the
\* output iff a's (round, theme, question) position precedes b's in the
\* document, and each question carries the names of the round and theme at its
\* position.
C3_DocumentOrder ==
    /\ \A i, j \in 1..Len(questions) : i < j <=> PosLess(questions[i].pos, questions[j].pos)
    /\ \A i \in 1..Len(questions) :
          /\ questions[i].round = Get(SourceRound(questions[i].pos), "@_name")
          /\ questions[i].category = Get(SourceTheme(questions[i].pos), "@_name")

\* C3 witness: a finished parse of two rounds whose document order (R1, then
\* Final) is not the alphabetical one, with several questions per round.
C3_Witness ==
    /\ pc = "done"
    /\ Len(questions) >= 4
    /\ questions[1].round = Str(nR1)
    /\ questions[Len(questions)].round = Str(nFinal)

\* The rounds processRound has been called on
RoundsBegun == {r \in 1..Len(SourceRounds) : pc \in {"rounds", "done"} /\ (r < ri \/ (r = ri /\ ti >= 1))}

\* C4 (as claimed): for every round processed, roundTypes maps the round's
\* name to final iff the round's type marker is literally "final".
C4_FinalIffMarker ==
    \A r \in RoundsBegun :
        /\ ToStr(Get(SourceRounds[r], "@_name")) \in DOMAIN roundTypes
        /\ roundTypes[ToStr(Get(SourceRounds[r], "@_name"))] = "final"
              <=> Get(SourceRounds[r], "@_type") = Str(<<"f","i","n","a","l">>)

LastOfItsName(r) == \A s \in (r + 1)..Len(SourceRounds) : Get(SourceRounds[s], "@_name") # Get(SourceRounds[r], "@_name")

\* What holds of C4 in every package: the equivalence for each round whose name
\* no later round repeats (roundTypes is keyed by the name, the last round of a
\* name decides; see C26).
C4_LastOfNameFinalIffMarker ==
    \A r \in RoundsBegun :
        LastOfItsName(r) =>
            /\ ToStr(Get(SourceRounds[r], "@_name")) \in DOMAIN roundTypes
            /\ roundTypes[ToStr(Get(SourceRounds[r], "@_name"))] = "final"
                  <=> Get(SourceRounds[r], "@_type") = Str(<<"f","i","n","a","l">>)

\* C5 (as claimed): no two questions of a parse result have the same id.
C5_UniqueIds == \A i, j \in 1..Len(questions) : i # j => questions[i].id # questions[j].id

\* The files resolved for a question's six media references
ResolvedFiles(q) == {q.questionImage, q.questionAudio, q.questionVideo, q.answerImage, q.answerAudio, q.answerVideo} \ {NoFile}

\* C7 (as claimed): fileStorage has an entry under a question's id iff one of
\* the question's six media references resolved, and the entry holds exactly
\* the files resolved for that question.
C7_StorageIffResolved ==
    \A i \in 1..Len(questions) :
        /\ questions[i].id \in DOMAIN fileStorage <=> ResolvedFiles(questions[i]) # {}
        /\ questions[i].id \in DOMAIN fileStorage =>
              {fileStorage[questions[i].id][s] : s \in DOMAIN fileStorage[questions[i].id]} = ResolvedFiles(questions[i])

(***************************************************************************)
(* Properties of extractFile (SpecResolve).                                *)
(***************************************************************************)
ProbeResolved == probe.phase = "resolved"

\* The folders the resolver tries, whatever the kind asked for
AcceptedPrefixes == {<<>>} \cup {k \o <<"/">> : k \in {KindImages, KindAudio, KindVideo, KindTexts}}

UnderAcceptedPrefix == probe.stored.prefix \in AcceptedPrefixes

\* A name with its written forms folded together: percent-decoded, '+' read
\* as ' ', and normalized as the search does
FoldName(n) == normalizeSearch(ReplaceAll(DecodedOr(DecodeURIComponent(n), n), <<"+">>, <<" ">>))

\* Another entry of the archive is a written form of the same name
OtherForms ==
    \E i \in 1..Len(file.entries) :
        /\ file.entries[i].path # StoredPath(probe.stored)
        /\ FoldName(BaseNameOf(file.entries[i].path)) = FoldName(probe.stored.name)

UnitParsed == unit.phase = "parsed"

\* The node that declares the type: the type child element (the first of
\* several), or the question itself for the legacy attribute
DeclaringNode(q) ==
    IF Get(q, "type").k = "undef" THEN q
    ELSE IF Get(q, "type").k = "arr" THEN Get(q, "type").a[1]
    ELSE Get(q, "type")

DeclaredTypeName(q) ==
    IF Get(q, "type").k = "undef" THEN getText(Get(q, "@_type"))
    ELSE IF DeclaringNode(q).k = "str" THEN DeclaringNode(q).s
    ELSE getText(Get(DeclaringNode(q), "@_name"))

\* The nested params of a node: direct children, then those of its params child
NestedParams(node) == asArray(Get(node, "param")) \o asArray(Get(Get(node, "params"), "param"))

\* The value the nested param of this name gives, or else the attribute
DeclaredValue(node, name, attr) ==
    IF getText(FindByName(NestedParams(node), name)) # <<>>
    THEN getText(FindByName(NestedParams(node), name))
    ELSE getText(Get(node, attr))

DeclaredCat(q) == ToLowerCase(DeclaredTypeName(q)) \in {sCat, sBagcat}

SelectDeclared(q) == getText(FindByName(asArray(Get(Get(q, "params"), "param")), sAnswerType)) = sSelect

\* The type the question slot's content items give: video if any video item
\* names a file, else audio if any voice or audio item does, else text
InferredType(items) ==
    IF \E i \in 1..Len(items) : items[i].type = sVideo /\ items[i].text # <<>> THEN sVideo
    ELSE IF \E i \in 1..Len(items) : items[i].type \in {sVoice, sAudio} /\ items[i].text # <<>> THEN sAudio
    ELSE sText

DeclaredGroup(q) ==
    LET params == asArray(Get(Get(q, "params"), "param"))
        groups == {i \in 1..Len(params) : Get(params[i], "@_name") = Str(sAnswerOptions) /\ Get(params[i], "@_type") = Str(sGroup)}
    IN IF groups = {} THEN Undef ELSE params[CHOOSE i \in groups : \A j \in groups : i <= j]

\* Its nested params, in declared order
DeclaredOptions(q) == IF Get(DeclaredGroup(q), "param").k \in {"obj", "arr"} THEN asArray(Get(DeclaredGroup(q), "param")) ELSE <<>>

\* "{optionKey}: {optionText}", the text the option's own or else that of its
\* first nested item
ExpectedOption(opt) ==
    ToStr(Get(opt, "@_name")) \o <<":", " ">>
        \o (IF getText(opt) # <<>> THEN getText(opt) ELSE getText((asArray(Get(opt, "item")) \o <<Undef>>)[1]))

ExpectedOptions(opts) == [i \in 1..Len(opts) |-> ExpectedOption(opts[i])]

DeclaredAnswerItems(q) ==
    LET items == asArray(Get(FindByName(asArray(Get(Get(q, "params"), "param")), sAnswer), "item"))
    IN [i \in 1..Len(items) |-> [type |-> IF getText(Get(items[i], "@_type")) = <<>> THEN sText ELSE getText(Get(items[i], "@_type")),
                                 text |-> getText(items[i])]]

\* C11: the answer slot's content items are those of the params entry named
\* answer and never the scenario atoms; a question without such an entry has
\* no answer item, no answer media, and its answer text is the right answer.
C11_ScenarioOnlyForQuestion ==
    UnitParsed =>
        /\ unit.answerItems = DeclaredAnswerItems(unit.q)
        /\ DeclaredAnswerItems(unit.q) = <<>> =>
              /\ unit.out.answerImage = NoFile /\ unit.out.answerAudio = NoFile /\ unit.out.answerVideo = NoFile
              /\ unit.out.answer = getText(Get(Get(unit.q, "right"), "answer"))

\* C11 witness: a question with only a scenario, whose atoms gave the question
\* an image, and that has no answer item and no answer media.
C11_Witness ==
    /\ UnitParsed
    /\ Get(unit.q, "params") = Undef
    /\ Len(asArray(Get(Get(unit.q, "scenario"), "atom"))) = 2
    /\ unit.out.questionImage # NoFile
    /\ unit.answerItems = <<>>
    /\ unit.out.answerImage = NoFile
    /\ unit.out.answer = tFour

\* C12 (as claimed): every question's score is an integer greater than or
\* equal to 0, whatever the price, cost or value attribute or element holds.
C12_ScoreNotNegative == UnitParsed => unit.out.score \in Nat

\* The accepted spellings of the price
PriceSpellings == {"@_price", "@_cost", "@_value", "@_Price", "price", "cost", "value"}

\* The integers the spellings present on the question parse as
SpellingsParsed(q) == {ParseInt(getText(Get(q, s))).n : s \in {x \in PriceSpellings : Get(q, x) # Undef /\ ~ParseInt(getText(Get(q, x))).nan}}

\* C13 (as claimed): the score is resolved from the accepted spellings, and is
\* 0 only when none of the spellings present parses as an integer (or one
\* parses as 0); a malformed score does not abort the parse.
C13_ScoreFromSpellings ==
    UnitParsed =>
        /\ ~unit.threw
        /\ SpellingsParsed(unit.q) = {} => unit.out.score = 0
        /\ SpellingsParsed(unit.q) # {} => unit.out.score \in SpellingsParsed(unit.q)

(***************************************************************************)
(* References to files the archive does not hold.                          *)
(***************************************************************************)
\* No file of the archive has a name that holds, or is held by, the base name
\* of the reference (in any letter case)
Unmatched(ref) ==
    \A i \in 1..Len(file.entries) :
        ~file.entries[i].dir =>
            /\ ~Includes(ToLowerCase(file.entries[i].path), ToLowerCase(BaseNameOf(CleanName(ref))))
            /\ ~Includes(ToLowerCase(BaseNameOf(CleanName(ref))), ToLowerCase(BaseNameOf(file.entries[i].path)))

KindTypes(kind) == IF kind = "image" THEN {sImage} ELSE IF kind = "video" THEN {sVideo} ELSE {sVoice, sAudio}

\* The items of one media kind that carry a reference
KindItems(items, kind) == {i \in 1..Len(items) : items[i].type \in KindTypes(kind) /\ items[i].text # <<>>}

\* The slot has references of the kind, and none of them matches an entry
AllUnmatched(items, kind) == KindItems(items, kind) # {} /\ \A i \in KindItems(items, kind) : Unmatched(items[i].text)

MediaSlots == {<<sQuestion, "image">>, <<sQuestion, "audio">>, <<sQuestion, "video">>, <<sAnswer, "image">>, <<sAnswer, "audio">>, <<sAnswer, "video">>}

SlotField(s) ==
    IF s[1] = sQuestion
    THEN (IF s[2] = "image" THEN "questionImage" ELSE IF s[2] = "audio" THEN "questionAudio" ELSE "questionVideo")
    ELSE (IF s[2] = "image" THEN "answerImage" ELSE IF s[2] = "audio" THEN "answerAudio" ELSE "answerVideo")

\* The legacy aliases of the question's audio and video slots
SlotAlias(s) == IF s[1] = sQuestion /\ s[2] # "image" THEN {s[2]} ELSE {}

UnmatchedSlots(q) == {s \in MediaSlots : AllUnmatched(extractContentItems(q, s[1]), s[2])}

\* The fields of a question that hold no media
OtherFields(nq) ==
    [round |-> nq.round, category |-> nq.category, score |-> nq.score, type |-> nq.type, question |-> nq.question,
     answer |-> nq.answer, answerOptions |-> nq.answerOptions, specialType |-> nq.specialType,
     specialDescription |-> nq.specialDescription, pos |-> nq.pos]

\* The same question parsed against an archive that holds the usual media
ParsedWithMedia(q, roundName, category, pos) ==
    ProcessQuestion(q, roundName, category, UnitArchive, BuildIndex(UnitArchive, Len(UnitArchive)), <<>>, pos).question

\* The number of question elements of the package
SourcePositions ==
    {p \in (1..MaxRounds) \X (1..3) \X (1..2) :
        /\ p[1] <= Len(packageRounds)
        /\ p[2] <= Len(ThemesOf(packageRounds[p[1]]))
        /\ p[3] <= Len(QuestionsOf(ThemesOf(packageRounds[p[1]])[p[2]]))}

\* A step of the loop over a theme's questions
IsQuestionStep == pc = "rounds" /\ ri' = ri /\ ti' = ti /\ ti >= 1 /\ (qi' = qi + 1 \/ pc' = "failed")

EmittedWithout(q, nq, slots) ==
    /\ \A s \in slots :
          /\ nq[SlotField(s)] = NoFile
          /\ fileStorage' # fileStorage => (({SlotField(s)} \cup SlotAlias(s)) \cap DOMAIN fileStorage'[nq.id] = {})
    /\ OtherFields(nq) = OtherFields(ParsedWithMedia(q, nq.round, nq.category, nq.pos))

\* C14: a media reference that matches no entry of the archive does not throw;
\* the question is emitted with that media field absent, the storage entry
\* written for it has no such slot, every other field is what it is when the
\* media is there, and the parse goes on: the finished parse has one question
\* per question element of the package.
C14_MissingMediaIsAbsent ==
    [][/\ (IsQuestionStep /\ UnmatchedSlots(CurrentQuestion) # {}) =>
              /\ pc' = "rounds"
              /\ Len(questions') = Len(questions) + 1
              /\ SubSeq(questions', 1, Len(questions)) = questions
              /\ EmittedWithout(CurrentQuestion, questions'[Len(questions')], UnmatchedSlots(CurrentQuestion))
       /\ pc' = "done" => Len(questions') = Cardinality(SourcePositions)]_vars

\* C14 witness: a finished parse in which a question with an image reference
\* that matches no entry was emitted without the image, and a later question
\* got its image from the archive.
C14_Witness ==
    /\ pc = "done"
    /\ \E i \in 1..Len(questions) :
          /\ <<sQuestion, "image">> \in UnmatchedSlots(QuestionsOf(SourceTheme(questions[i].pos))[questions[i].pos[3]])
          /\ questions[i].questionImage = NoFile
          /\ \E j \in (i + 1)..Len(questions) : questions[j].questionImage # NoFile

(***************************************************************************)
(* Several media items in one slot (SpecQuestion).                         *)
(***************************************************************************)
SlotItems(s) == IF s[1] = sQuestion THEN unit.questionItems ELSE unit.answerItems

FirstOfKind(items, kind) == items[CHOOSE i \in KindItems(items, kind) : \A j \in KindItems(items, kind) : i <= j]

\* What the resolver returns for an item of the slot
FileOf(item) == extractFile(file.entries, [zip |-> zipFileMap, base |-> baseNameMap], item.text, MediaKind(item.type)).file

\* C19 (as claimed): when a slot holds several items of one media kind the
\* first of them gives the payload; later items of the kind do not replace it.
C19_FirstItemWins ==
    UnitParsed =>
        \A s \in MediaSlots :
            KindItems(SlotItems(s), s[2]) # {} => unit.out[SlotField(s)] = FileOf(FirstOfKind(SlotItems(s), s[2]))

\* The type the claim's words give: any item of kind voice or audio counts,
\* and any item of kind video excludes audio, with or without a reference
TypeByKinds(items) ==
    IF \E i \in 1..Len(items) : items[i].type = sVideo /\ items[i].text # <<>> THEN sVideo
    ELSE IF (\E i \in 1..Len(items) : items[i].type \in {sVoice, sAudio}) /\ ~(\E i \in 1..Len(items) : items[i].type = sVideo) THEN sAudio
    ELSE sText

\* C20 (as claimed): the inferred type is video when the list holds a video
\* item with a non-empty reference, audio when it holds a voice or audio item
\* and no video item, and text otherwise.
C20_TypeByKinds == (UnitParsed /\ ~SelectDeclared(unit.q)) => unit.out.type = TypeByKinds(unit.questionItems)

\* C20 (amended): only items with a non-empty reference count. The type is
\* video iff some video item has a reference, wherever it stands; audio iff
\* some voice or audio item has one and no video item has; text iff no video,
\* voice or audio item has a reference.
C20_TypeByReferencedKinds ==
    (UnitParsed /\ ~SelectDeclared(unit.q)) =>
        /\ unit.out.type = sVideo <=> KindItems(unit.questionItems, "video") # {}
        /\ unit.out.type = sAudio <=> (KindItems(unit.questionItems, "audio") # {} /\ KindItems(unit.questionItems, "video") = {})
        /\ unit.out.type = sText <=> (KindItems(unit.questionItems, "audio") = {} /\ KindItems(unit.questionItems, "video") = {})

\* C20 witness: a video item followed by a voice item, both with references;
\* the type stays video.
C20_Witness ==
    /\ UnitParsed
    /\ Len(unit.questionItems) = 2
    /\ unit.questionItems[1].type = sVideo /\ unit.questionItems[1].text # <<>>
    /\ unit.questionItems[2].type = sVoice /\ unit.questionItems[2].text # <<>>
    /\ unit.out.type = sVideo
    /\ unit.out.questionAudio # NoFile

(***************************************************************************)
(* Properties of two calls in flight (SpecConcurrent).                     *)
(***************************************************************************)
RoundsOfFile(f) == IF f.xmlKind = "doc" THEN asArray(Get(Get(Get(f.tree, "package"), "rounds"), "round")) ELSE <<>>

\* The positions <<round, theme, question>> of the question elements
PositionsIn(rounds) ==
    {p \in (1..MaxRounds) \X (1..3) \X (1..2) :
        /\ p[1] <= Len(rounds)
        /\ p[2] <= Len(ThemesOf(rounds[p[1]]))
        /\ p[3] <= Len(QuestionsOf(ThemesOf(rounds[p[1]])[p[2]]))}

NthPosition(S, n) == CHOOSE p \in S : Cardinality({x \in S : PosLess(x, p)}) = n - 1

\* What a call on file f, alone, makes of the question at position p
AloneAt(f, rounds, p, rnd) ==
    ProcessQuestion(QuestionsOf(ThemesOf(rounds[p[1]])[p[2]])[p[3]], Get(rounds[p[1]], "@_name"),
                    Get(ThemesOf(rounds[p[1]])[p[2]], "@_name"), f.entries, BuildIndex(f.entries, Len(f.entries)), rnd, p)

AloneNth(f, draws, n) == AloneAt(f, RoundsOfFile(f), NthPosition(PositionsIn(RoundsOfFile(f)), n), draws[n])

\* The questions and storage of a call alone after its first n questions,
\* with the same random draws
AloneStep(acc, r) == [questions |-> PushQuestion(acc.questions, r.question), fileStorage |-> StoreFiles(acc.fileStorage, r.question.id, r.storage)]

RECURSIVE AloneRun(_, _, _)
AloneRun(f, draws, n) == IF n = 0 THEN [questions |-> <<>>, fileStorage |-> <<>>] ELSE AloneStep(AloneRun(f, draws, n - 1), AloneNth(f, draws, n))

RECURSIVE AloneRoundTypes(_, _)
AloneRoundTypes(rounds, r) == IF r = 0 THEN <<>> ELSE SetRoundType(AloneRoundTypes(rounds, r - 1), rounds[r])

RoundsBegunBy(call) == IF call.pc = "done" THEN call.ri - 1 ELSE IF call.ti >= 1 THEN call.ri ELSE call.ri - 1

\* The error a call on file f, alone, can end with
AloneErrors(f) ==
    IF ~f.openable THEN {"zip"}
    ELSE IF ~ZipFile(f.entries, pContentXml) THEN {"content.xml not found"}
    ELSE IF f.xmlKind = "malformed" THEN {"xml"}
    ELSE {}

AsAlone(call, fr) ==
    /\ call.pc = "failed" => call.error \in AloneErrors(call.file)
    /\ call.pc \in {"rounds", "done"} => AloneErrors(call.file) \subseteq {"xml"}
    /\ call.pc = "rounds" =>
          /\ fr.packageRounds = RoundsOfFile(call.file)
          /\ fr.zipFileMap = BuildIndex(call.file.entries, Len(call.file.entries)).zip
          /\ fr.baseNameMap = BuildIndex(call.file.entries, Len(call.file.entries)).base
          /\ [questions |-> fr.questions, fileStorage |-> fr.fileStorage] = AloneRun(call.file, call.draws, Len(call.draws))
          /\ fr.roundTypes = AloneRoundTypes(RoundsOfFile(call.file), RoundsBegunBy(call))
    /\ call.pc = "done" =>
          /\ Len(call.draws) = Cardinality(PositionsIn(RoundsOfFile(call.file)))
          /\ [questions |-> call.result.questions, fileStorage |-> call.result.fileStorage] = AloneRun(call.file, call.draws, Len(call.draws))
          /\ call.result.roundTypes = AloneRoundTypes(RoundsOfFile(call.file), Len(RoundsOfFile(call.file)))

\* C15: two parseSiq calls in flight on one service instance do not interact.
\* Whatever the interleaving of their steps, each call's maps, question list,
\* storage and round types are at every moment those of that call running
\* alone on its file (with the same random draws), and so is what it returns
\* or throws.
C15_CallsDoNotInteract == \A c \in DOMAIN calls : AsAlone(calls[c], frames[calls[c].frame])

\* C15 witness: both calls have returned, their steps were interleaved (the
\* frames hold two different packages at once), and each result has the
\* questions of its own file.
C15_Witness ==
    /\ DOMAIN calls = Callers
    /\ calls[1].pc = "done" /\ calls[2].pc = "done"
    /\ calls[1].file # calls[2].file
    /\ Len(calls[1].result.questions) = 3
    /\ Len(calls[2].result.questions) = 1
    /\ calls[1].result.questions[2].questionImage # NoFile
    /\ calls[2].result.questions[1].answerAudio # NoFile

(***************************************************************************)
(* Properties of the admin and TV windows (SpecSync).                      *)
(***************************************************************************)
MaxPosted == MaxClicks + 1

\* C16: with the admin and the TV window open, every change of the players
\* made in the admin panel (a player added, renamed, given a score, removed)
\* is followed at once by a STATE message carrying the changed players; every
\* message posted reaches the TV window; and a STATE message handled there
\* puts its players' names and scores on the scoreboard.
C16_PlayerChangesReachTV ==
    /\ [][state'.players # state.players =>
              /\ Len(toTV') = Len(toTV) + 1
              /\ toTV'[Len(toTV')] = [type |-> "STATE", state |-> state']]_vars
    /\ [][(tv'.received # tv.received /\ toTV[1].type = "STATE") =>
              /\ \A i \in 1..Len(toTV[1].state.players) : \E j \in 1..Len(tv'.scoreboard) :
                    /\ tv'.scoreboard[j].id = toTV[1].state.players[i].id
                    /\ tv'.scoreboard[j].name = toTV[1].state.players[i].name
                    /\ tv'.scoreboard[j].score = toTV[1].state.players[i].score
              /\ Len(tv'.scoreboard) = Len(toTV[1].state.players)]_vars
    /\ \A n \in 1..MaxPosted : (admin.posted >= n) ~> (tv.received >= n)

\* C16 witness: the host added a player, renamed it and gave it 500 points;
\* all messages have arrived and the scoreboard shows Ann with 500 on top.
C16_Witness ==
    /\ DOMAIN tv # {}
    /\ toTV = <<>>
    /\ Len(state.players) = 2
    /\ state.players[2].name = "Ann" /\ state.players[2].score = 500
    /\ Len(tv.scoreboard) = 2
    /\ tv.scoreboard[1].name = "Ann" /\ tv.scoreboard[1].score = 500
    /\ tv.scoreboard[2].name = "Igrok 1"

(***************************************************************************)
(* Properties of the game controls (SpecApp).                              *)
(***************************************************************************)
\* Object.keys(state.rounds): the rounds in the order the loaded pack has them
PackageOrder(s) == [i \in 1..Len(s.rounds) |-> s.rounds[i].name]

\* C17: after a pack is loaded into the game state, state.roundNames lists
\* the rounds in the order the pack has them, not in alphabetical order.
C17_RoundNamesInPackOrder == state.roundNames = PackageOrder(state)

\* The messages a step posts to the TV window
PostedToTV(before, after) == IF Len(after) > Len(before) THEN SubSeq(after, Len(before) + 1, Len(after)) ELSE <<>>

\* A click on the open button whose question the game state still has: one
\* that a folder loaded since has replaced is not opened
OpensSpecialQuestion ==
    OpenSpecialClick /\ \E k \in 1..Len(admin.listeners) : HasQuestion(state, admin.listeners[k])

\* C18: selecting a question and opening a special question leave
\* state.visible.answer false; no step but the click on Show Answer makes it
\* true; and every STATE message posted carries the flag the admin state
\* has then. So from the selection until Show Answer is pressed the flag is
\* false in the admin state and in every STATE message broadcast.
C18_AnswerOnlyByShowAnswer ==
    [][/\ (SelectQuestion \/ OpensSpecialQuestion) => ~state'.visible.answer
       /\ (state'.visible.answer /\ ~state.visible.answer) => ShowAnswerClick
       /\ \A k \in 1..Len(PostedToTV(toTV, toTV')) :
             PostedToTV(toTV, toTV')[k].type = "STATE" => PostedToTV(toTV, toTV')[k].state.visible.answer = state'.visible.answer]_vars

\* The TV has shown the selected question with its answer hidden, and the
\* host has then pressed Show Answer for it
C18_Witness ==
    /\ state.currentQuestionId # Null
    /\ state.visible.answer
    /\ tv.currentGameState # Undefined
    /\ tv.currentGameState.currentQuestionId = state.currentQuestionId
    /\ ~tv.currentGameState.visible.answer

(***************************************************************************)
(* The text of a slot (SpecText).                                          *)
(***************************************************************************)
\* An item that gives literal text: kind text or say, a value that is not
\* empty and does not start with the reference marker
IsLiteralText(item) == item.type \in {sText, sSay} /\ item.text # <<>> /\ Head(item.text) # "@"

LiteralTexts(items) == [i \in 1..Len(SelectSeq(items, IsLiteralText)) |-> SelectSeq(items, IsLiteralText)[i].text]

\* The values, in order, with a line break between neighbours
RECURSIVE NewlineJoined(_, _)
NewlineJoined(parts, n) ==
    IF n = 0 THEN <<>>
    ELSE IF n = 1 THEN parts[1]
    ELSE NewlineJoined(parts, n - 1) \o <<"\n">> \o parts[n]

SlotText(items) == NewlineJoined(LiteralTexts(items), Len(LiteralTexts(items)))

\* C21 (as claimed): the text of the question slot is the newline-joined
\* concatenation, in item order, of exactly the text and say items whose
\* value is non-empty and does not start with '@'.
C21_TextIsJoinedLiterals == UnitParsed => unit.out.question = SlotText(unit.questionItems)

\* C21 (amended): the slot text is that concatenation with the white space
\* at its two ends removed; the answer slot's text, which the answer is built
\* from, likewise.
C21_TextIsTrimmedJoinedLiterals ==
    UnitParsed =>
        /\ unit.out.question = Trim(SlotText(unit.questionItems))
        /\ unit.out.answer = AnswerText(unit.q, Trim(SlotText(unit.answerItems)))

\* C21 witness: two literal items among the items of the question slot, one
\* of them with white space at an end, and the line break between them
C21_Witness ==
    /\ UnitParsed
    /\ Len(unit.questionItems) = 2
    /\ unit.questionItems[1].text = tWhat
    /\ unit.questionItems[2].text = <<" ", "4", " ">>
    /\ unit.out.question = tWhat \o <<"\n", " ", "4">>

(***************************************************************************)
(* The schema adapter (SpecText).                                          *)
(***************************************************************************)
\* The params entries of the question, and those named as the slot that have
\* item children
ParamEntries(q) == asArray(Get(Get(q, "params"), "param"))

HasItems(p, target) == Get(p, "@_name") = Str(target) /\ Get(p, "item") # Undef

\* The item or atom elements as {type, text} pairs, in order
AsItems(nodes) ==
    [i \in 1..Len(nodes) |->
        [type |-> IF Get(nodes[i], "@_type") = Undef THEN sText ELSE getText(Get(nodes[i], "@_type")), text |-> getText(nodes[i])]]

ElementsOf(v) == IF v = Undef THEN <<>> ELSE IF v.k = "arr" THEN v.a ELSE <<v>>

\* What the claim's words give for a slot
AdapterResult(q, target) ==
    IF \E i \in 1..Len(ParamEntries(q)) : HasItems(ParamEntries(q)[i], target)
    THEN AsItems(ElementsOf(Get(ParamEntries(q)[CHOOSE i \in 1..Len(ParamEntries(q)) :
                                                    /\ HasItems(ParamEntries(q)[i], target)
                                                    /\ \A j \in 1..(i - 1) : ~HasItems(ParamEntries(q)[j], target)], "item")))
    ELSE IF target = sQuestion THEN AsItems(ElementsOf(Get(Get(q, "scenario"), "atom")))
    ELSE <<>>

\* C22 (as claimed): the items of the params entry named as the slot are
\* returned in order when it has items, whatever the scenario holds;
\* otherwise the scenario atoms, for the question slot only; otherwise the
\* empty list.
C22_ModernThenLegacy ==
    UnitParsed =>
        /\ unit.questionItems = AdapterResult(unit.q, sQuestion)
        /\ unit.answerItems = AdapterResult(unit.q, sAnswer)

(***************************************************************************)
(* The special type of a question (SpecQuestion).                          *)
(***************************************************************************)
\* Two names that differ at most in the case of their letters
SameIgnoringCase(a, b) == Len(a) = Len(b) /\ \A i \in 1..Len(a) : LowerChar(a[i]) = LowerChar(b[i])

\* The table of the special types
SpecialTypeTable == << <<sBagcat, "cat">>, <<sCat, "cat">>, <<sSponsored, "bet">>, <<sSecret, "special">>, <<sStake, "auction">> >>

SpecialTypeNamed(name) ==
    IF \E i \in 1..Len(SpecialTypeTable) : SameIgnoringCase(name, SpecialTypeTable[i][1])
    THEN SpecialTypeTable[CHOOSE i \in 1..Len(SpecialTypeTable) : SameIgnoringCase(name, SpecialTypeTable[i][1])][2]
    ELSE "none"

PrefixOrder(type) ==
    << <<>>, type \o <<"/">>, <<"I","m","a","g","e","s","/">>, <<"A","u","d","i","o","/">>, <<"V","i","d","e","o","/">>,
       <<"T","e","x","t","s","/">>, ToLowerCase(type) \o <<"/">> >>

ProbeCandidates == Range(Candidates(probe.filename))

\* The entries the path index gives for some candidate under the n-th prefix
PathFinds(n) ==
    { MapGet(zipFileMap, normalizeSearch(PrefixOrder(probe.type)[n] \o c)) : c \in ProbeCandidates }
        \cap {file.entries[i].path : i \in 1..Len(file.entries)}

\* The entries the basename index gives for the basename of some candidate
BaseFinds == { MapGet(baseNameMap, normalizeSearch(BaseNameOf(c))) : c \in ProbeCandidates } \ {<<>>}

PathStepFinds == \E n \in 1..Len(PrefixOrder(probe.type)) : PathFinds(n) # {}

\* C24: the first prefix, in the fixed order, under which the path index holds
\* a candidate decides, whatever later prefixes and later steps would give;
\* the basename index is used only when the path index gives nothing, and the
\* substring scan only when the basename index gives nothing either.
C24_FirstStepWins ==
    ProbeResolved =>
        /\ \A n \in 1..Len(PrefixOrder(probe.type)) :
              (PathFinds(n) # {} /\ \A m \in 1..(n - 1) : PathFinds(m) = {}) => (probe.via = "path" /\ probe.file.path \in PathFinds(n))
        /\ (~PathStepFinds /\ BaseFinds # {}) => (probe.via = "base" /\ probe.file.path \in BaseFinds)
        /\ probe.via = "scan" => (~PathStepFinds /\ BaseFinds = {})
        /\ probe.via = "base" => ~PathStepFinds

\* C24 witness: the entry at the archive root, found under the first prefix,
\* is returned although a later prefix and the basename index lead to the
\* entry of the same name in Images/
C24_Witness ==
    /\ ProbeResolved
    /\ probe.via = "path"
    /\ probe.file.path = fComposed
    /\ KindImages \o <<"/">> \o fComposed \in PathFinds(2)
    /\ BaseFinds = {KindImages \o <<"/">> \o fComposed}

(***************************************************************************)
(* The threshold of the substring scan (SpecResolve).                      *)
(***************************************************************************)
\* The normalized basename of the reference
TargetBase == normalizeSearch(BaseNameOf(Trim(StripAt(probe.filename))))

ShortTarget == Len(TargetBase) <= 5

\* An indexed basename that contains the target or is contained in it
ScanWouldMatch ==
    \E i \in 1..Len(baseNameMap) : Includes(baseNameMap[i].key, TargetBase) \/ Includes(TargetBase, baseNameMap[i].key)

\* C25: the substring scan is used only for a reference whose normalized
\* basename has more than 5 characters; a shorter one that misses the path
\* index and the basename index resolves to none, whatever the archive holds.
C25_ScanOnlyForLongNames ==
    ProbeResolved =>
        /\ probe.via = "scan" => ~ShortTarget
        /\ (ShortTarget /\ ~PathStepFinds /\ BaseFinds = {}) => (probe.file = NoFile /\ ~probe.threw)

\* C25 witness: the reference @a.jpg, read as a.jpg, misses both indexes; the
\* indexed name @a.jpg contains it, and it resolves to none
C25_Witness ==
    /\ ProbeResolved
    /\ probe.filename = fAtA
    /\ TargetBase = <<"a", ".", "j", "p", "g">>
    /\ ~PathStepFinds /\ BaseFinds = {}
    /\ ScanWouldMatch
    /\ probe.file = NoFile

(***************************************************************************)
(* The kind of a question's round (Spec).                                  *)
(***************************************************************************)
\* final iff the round's type marker is "final"
KindOfRound(round) == IF Get(round, "@_type") = Str(<<"f","i","n","a","l">>) THEN "final" ELSE "regular"

\* C26 (as claimed): for every question of the result, roundTypes[q.round] is
\* defined and is the kind of the source round that holds the question, also
\* when two source rounds have the same name and different type markers.
C26_RoundTypeOfOwnRound ==
    pc = "done" =>
        \A i \in 1..Len(questions) :
            /\ ToStr(questions[i].round) \in DOMAIN roundTypes
            /\ roundTypes[ToStr(questions[i].round)] = KindOfRound(SourceRound(questions[i].pos))

(***************************************************************************)
(* Properties of a reference that is an entry's exact path (SpecPath).     *)
(***************************************************************************)
\* C27 as stated: for every non-directory entry p of the archive, resolving
\* a reference equal to p's exact path returns p's own blob, whatever other
\* entries the archive holds.
C27_ExactPathFindsOwnBlob ==
    (ProbeResolved /\ probe.variant = "path") => probe.file.path = StoredPath(probe.stored)

(***************************************************************************)
(* The inferred type and the outcome of resolution (SpecQuestion).         *)
(***************************************************************************)
ArchiveWithoutMedia == <<Entry(pContentXml, FALSE, FALSE)>>

\* The type the same question gets from an archive in which no reference
\* resolves
TypeWithoutMedia(q) ==
    ProcessQuestion(q, Str(nR1), Str(nT1), ArchiveWithoutMedia, BuildIndex(ArchiveWithoutMedia, 1), <<>>, <<1, 1, 1>>).question.type

\* The items of a kind whose reference resolves to nothing
Unresolved(items, kind) == {i \in KindItems(items, kind) : FileOf(items[i]) = NoFile}

NoQuestionMedia(nq) == nq.questionImage = NoFile /\ nq.questionAudio = NoFile /\ nq.questionVideo = NoFile

NoAnswerMedia(nq) == nq.answerImage = NoFile /\ nq.answerAudio = NoFile /\ nq.answerVideo = NoFile

\* C28: the inferred type does not depend on whether resolution succeeds. It
\* is the type the question gets when no reference resolves; a video item
\* whose reference resolves to nothing sets the type to video, a voice or
\* audio item whose reference resolves to nothing sets it to audio when no
\* video item has a reference; and a question none of whose references
\* resolves has no storage entry, whatever its type.
C28_TypeWhateverResolves ==
    UnitParsed =>
        /\ unit.out.type = TypeWithoutMedia(unit.q)
        /\ ~SelectDeclared(unit.q) =>
              /\ Unresolved(unit.questionItems, "video") # {} => unit.out.type = sVideo
              /\ (Unresolved(unit.questionItems, "audio") # {} /\ KindItems(unit.questionItems, "video") = {})
                    => unit.out.type = sAudio
        /\ (NoQuestionMedia(unit.out) /\ NoAnswerMedia(unit.out)) => DOMAIN unit.storage = {}

\* C28 witness: a question whose only content is a voice item with a
\* reference that resolves to nothing: its type is audio, it has no audio and
\* no storage entry.
C28_Witness ==
    /\ UnitParsed
    /\ Len(unit.questionItems) = 1
    /\ unit.questionItems[1].type = sVoice
    /\ Unresolved(unit.questionItems, "audio") = {1}
    /\ unit.out.type = sAudio
    /\ unit.out.questionAudio = NoFile
    /\ DOMAIN unit.storage = {}

(***************************************************************************)
(* The round data on the TV and the question in play (SpecApp).            *)
(***************************************************************************)
\* A call of selectQuestion or openSpecialQuestion has still to send
SendPending == \E i \in 1..Len(admin.tasks) : admin.tasks[i].kind \in {"select", "open", "open-sync"}

\* An ordinary question is in play and shown by the round view
PlainQuestionInPlay ==
    /\ state.mode = "ROUND"
    /\ state.currentQuestionId # Null
    /\ HasQuestion(state, state.currentQuestionId)
    /\ findQuestion(state, state.currentQuestionId).specialType = Null

\* C29 as stated: when the host selects question A and then question B before
\* A's media conversion has finished, the last LOAD_ROUND_DATA message is
\* B's: once every pending selection has sent and the TV has handled every
\* message, the round data the TV holds is that of the question named by
\* state.currentQuestionId.
C29_RoundDataOfCurrentQuestion ==
    (PlainQuestionInPlay /\ ~SendPending /\ toTV = <<>> /\ tv.roundData # Undefined)
        => tv.roundData.questionId = state.currentQuestionId

(***************************************************************************)
(* Folder loads, one at a time (SpecApp).                                  *)
(***************************************************************************)
\* The calls of handleFolderLoad that wait for processFiles
FolderLoads(a) == {i \in 1..Len(a.tasks) : a.tasks[i].kind = "folder"}

RunningLoads(a) == {a.tasks[i] : i \in FolderLoads(a)}

\* C30: at most one folder load is processed at a time. A change event that
\* arrives while a load is running is dropped: its files are not processed,
\* nothing of the game changes and the flag stays set; the running load is
\* not replaced. The flag is set exactly while a load runs: it is reset when
\* the load finishes, by success or by failure, and a change event that
\* arrives then is accepted.
C30_OneFolderLoadAtATime ==
    [][/\ Cardinality(FolderLoads(admin')) <= 1
       /\ admin'.isFolderLoading <=> FolderLoads(admin') # {}
       /\ (admin.isFolderLoading /\ admin'.isFolderLoading) => RunningLoads(admin') = RunningLoads(admin)
       /\ (FolderInputChange /\ admin.isFolderLoading) =>
             /\ admin'.tasks = admin.tasks
             /\ admin'.isFolderLoading
             /\ UNCHANGED <<state, toTV, toAdmin, tv>>
       /\ (FolderInputChange /\ ~admin.isFolderLoading) => (admin'.isFolderLoading /\ Cardinality(FolderLoads(admin')) = 1)
       /\ (HandleFolderLoad \/ HandleFolderLoadFailed) => ~admin'.isFolderLoading]_vars

\* C30 witness: two change events and one finished load, that of PackA: the
\* second event was dropped while the load ran, or the first load failed and
\* the second was accepted; the flag is reset.
C30_Witness ==
    /\ admin.clicks = 2
    /\ admin.posted = 1
    /\ admin.loadStatus = "files_loaded"
    /\ ~admin.isFolderLoading
    /\ admin.tasks = <<>>
    /\ PackageOrder(state) = <<"Round 1", "Final">>

====
